---------------------------- MODULE Spec2Model ----------------------------
(***************************************************************************)
(* Adaptive reminder scheduling of gd-tracker                              *)
(* (supabase/functions/schedule-weekly-reminders).                         *)
(*                                                                         *)
(* The weights and confidences of the scheduler are JavaScript numbers,    *)
(* that is IEEE-754 binary64 values, and two of its results depend on the  *)
(* rounding (1.0 - 3 * 0.3 is not 0.1, and 0.7 + 0.1 is below 0.8).  The   *)
(* first part of the module is therefore binary64 arithmetic on the        *)
(* non-negative numbers the scheduler computes with: a number is           *)
(* [m, e], of value m * 2^e, with m a natural number of exactly 53 bits    *)
(* (or m = 0), kept as a little-endian sequence of 15-bit limbs.           *)
(***************************************************************************)
EXTENDS Integers, Sequences, FiniteSets, TLC

(***************************************************************************)
(* Natural numbers of any size: sequences of limbs, least significant      *)
(* first, no leading zero limb; <<>> is zero.                              *)
(***************************************************************************)
LimbBase == 2^15

RECURSIVE BNTrim(_)
BNTrim(a) ==
    IF a = <<>> THEN <<>>
    ELSE IF a[Len(a)] = 0 THEN BNTrim(SubSeq(a, 1, Len(a) - 1))
    ELSE a

RECURSIVE BNFromInt(_)
BNFromInt(i) ==
    IF i = 0 THEN <<>> ELSE <<i % LimbBase>> \o BNFromInt(i \div LimbBase)

BNLimb(a, i) == IF i <= Len(a) THEN a[i] ELSE 0

BNMaxLen(a, b) == IF Len(a) >= Len(b) THEN Len(a) ELSE Len(b)

RECURSIVE BNAddFrom(_, _, _, _)
BNAddFrom(a, b, i, carry) ==
    IF i > BNMaxLen(a, b)
    THEN IF carry = 0 THEN <<>> ELSE <<carry>>
    ELSE LET s == BNLimb(a, i) + BNLimb(b, i) + carry
         IN  <<s % LimbBase>> \o BNAddFrom(a, b, i + 1, s \div LimbBase)

BNAdd(a, b) == BNAddFrom(a, b, 1, 0)

\* a - b, for a >= b
RECURSIVE BNSubFrom(_, _, _, _)
BNSubFrom(a, b, i, borrow) ==
    IF i > Len(a) THEN <<>>
    ELSE LET d == a[i] - BNLimb(b, i) - borrow
         IN  IF d < 0
             THEN <<d + LimbBase>> \o BNSubFrom(a, b, i + 1, 1)
             ELSE <<d>> \o BNSubFrom(a, b, i + 1, 0)

BNSub(a, b) == BNTrim(BNSubFrom(a, b, 1, 0))

\* -1, 0 or 1 as a < b, a = b, a > b
RECURSIVE BNCmpFrom(_, _, _)
BNCmpFrom(a, b, i) ==
    IF i = 0 THEN 0
    ELSE IF a[i] < b[i] THEN -1
    ELSE IF a[i] > b[i] THEN 1
    ELSE BNCmpFrom(a, b, i - 1)

BNCmp(a, b) ==
    IF Len(a) < Len(b) THEN -1
    ELSE IF Len(a) > Len(b) THEN 1
    ELSE BNCmpFrom(a, b, Len(a))

\* a * k, for a limb-sized k
RECURSIVE BNMulSmallFrom(_, _, _, _)
BNMulSmallFrom(a, k, i, carry) ==
    IF i > Len(a)
    THEN IF carry = 0 THEN <<>> ELSE <<carry>>
    ELSE LET p == a[i] * k + carry
         IN  <<p % LimbBase>> \o BNMulSmallFrom(a, k, i + 1, p \div LimbBase)

BNMulSmall(a, k) ==
    IF k = 1 THEN a ELSE BNTrim(BNMulSmallFrom(a, k, 1, 0))

\* a * LimbBase^n
BNShiftLimbs(a, n) ==
    IF a = <<>> THEN <<>> ELSE [i \in 1..n |-> 0] \o a

RECURSIVE BNMulFrom(_, _, _)
BNMulFrom(a, b, i) ==
    IF i > Len(b) THEN <<>>
    ELSE BNAdd(BNShiftLimbs(BNMulSmall(a, b[i]), i - 1), BNMulFrom(a, b, i + 1))

BNMul(a, b) == BNMulFrom(a, b, 1)

\* a \div d and a % d, for a limb-sized d > 0
RECURSIVE BNDivSmallFrom(_, _, _, _)
BNDivSmallFrom(a, d, i, rem) ==
    IF i = 0 THEN [q |-> <<>>, r |-> rem]
    ELSE LET cur  == rem * LimbBase + a[i]
             rest == BNDivSmallFrom(a, d, i - 1, cur % d)
         IN  [q |-> rest.q \o <<cur \div d>>, r |-> rest.r]

BNDivSmall(a, d) ==
    LET res == BNDivSmallFrom(a, d, Len(a), 0)
    IN  [q |-> BNTrim(res.q), r |-> res.r]

\* a * 2^n
BNShl(a, n) ==
    IF n = 0 THEN a ELSE BNShiftLimbs(BNMulSmall(a, 2^(n % 15)), n \div 15)

\* a \div 2^n
BNShr(a, n) ==
    LET k == n \div 15
    IN  IF k >= Len(a) THEN <<>>
        ELSE BNDivSmall(SubSeq(a, k + 1, Len(a)), 2^(n % 15)).q

RECURSIVE IntBitLen(_)
IntBitLen(i) == IF i = 0 THEN 0 ELSE 1 + IntBitLen(i \div 2)

BNBitLen(a) ==
    IF a = <<>> THEN 0 ELSE 15 * (Len(a) - 1) + IntBitLen(a[Len(a)])

BNIsOdd(a) == a # <<>> /\ a[1] % 2 = 1

(***************************************************************************)
(* binary64 arithmetic (round to nearest, ties to even) on non-negative    *)
(* numbers.  RoundToDouble(n, e, sticky) is the binary64 nearest to        *)
(* (n + x) * 2^e, where 0 < x < 1 if sticky and x = 0 otherwise.           *)
(***************************************************************************)
FZero == [m |-> <<>>, e |-> 0]

RoundToDouble(n, e, sticky) ==
    LET len == BNBitLen(n)
    IN  IF n = <<>> THEN FZero
        ELSE IF len <= 53
        THEN [m |-> BNShl(n, 53 - len), e |-> e - (53 - len)]
        ELSE LET k    == len - 53
                 q    == BNShr(n, k)
                 r    == BNSub(n, BNShl(q, k))
                 half == BNShl(<<1>>, k - 1)
                 c    == BNCmp(r, half)
                 up   == c > 0 \/ (c = 0 /\ (sticky \/ BNIsOdd(q)))
                 q2   == IF up THEN BNAdd(q, <<1>>) ELSE q
             IN  IF BNBitLen(q2) = 54
                 THEN [m |-> BNShr(q2, 1), e |-> e + k + 1]
                 ELSE [m |-> q2, e |-> e + k]

\* the binary64 of the natural number i (exact below 2^31)
FInt(i) == RoundToDouble(BNFromInt(i), 0, FALSE)

\* the binary64 nearest to p / q: division of two integers, and the value of a
\* decimal literal (0.04 is FDec(4, 100))
FDec(p, q) ==
    LET d == BNDivSmall(BNShl(BNFromInt(p), 75), q)
    IN  RoundToDouble(d.q, -75, d.r # 0)

FMinExp(a, b) == IF a.e <= b.e THEN a.e ELSE b.e

FAdd(a, b) ==
    IF a = FZero THEN b
    ELSE IF b = FZero THEN a
    ELSE LET e == FMinExp(a, b)
         IN  RoundToDouble(BNAdd(BNShl(a.m, a.e - e), BNShl(b.m, b.e - e)), e, FALSE)

FCmp(a, b) ==
    IF a = FZero THEN (IF b = FZero THEN 0 ELSE -1)
    ELSE IF b = FZero THEN 1
    ELSE IF a.e < b.e THEN -1
    ELSE IF a.e > b.e THEN 1
    ELSE BNCmp(a.m, b.m)

FLe(a, b) == FCmp(a, b) <= 0
FLt(a, b) == FCmp(a, b) < 0

\* a - b, for a >= b
FSub(a, b) ==
    IF b = FZero THEN a
    ELSE LET e == FMinExp(a, b)
         IN  RoundToDouble(BNSub(BNShl(a.m, a.e - e), BNShl(b.m, b.e - e)), e, FALSE)

FMul(a, b) ==
    IF a = FZero \/ b = FZero THEN FZero
    ELSE RoundToDouble(BNMul(a.m, b.m), a.e + b.e, FALSE)

\* a / 2 (exact: the numbers are far from the subnormal range)
FHalf(a) == IF a = FZero THEN FZero ELSE [m |-> a.m, e |-> a.e - 1]

\* Math.min, Math.max
MathMin(a, b) == IF FLe(a, b) THEN a ELSE b
MathMax(a, b) == IF FLe(a, b) THEN b ELSE a

(***************************************************************************)
(* adaptive-lookback.ts: the lookback strategy                             *)
(***************************************************************************)
\* The numeric literals of the source, as binary64 values
Lit_1_0  == FInt(1)
Lit_0_1  == FDec(1, 10)
Lit_0_2  == FDec(2, 10)
Lit_0_3  == FDec(3, 10)
Lit_0_5  == FDec(5, 10)
Lit_0_7  == FDec(7, 10)
Lit_0_02 == FDec(2, 100)
Lit_0_04 == FDec(4, 100)

determineLookbackStrategy_Early(scheduledWeeks) ==
    IF scheduledWeeks = 0
    THEN [mode |-> "bootstrap", scheduledWeeksCount |-> 0,
          useScheduledWeeks |-> FALSE, useHistoricalWeeks |-> TRUE,
          historicalLookbackDays |-> 60, historicalWeight |-> Lit_1_0]
    ELSE IF scheduledWeeks < 3
    THEN [mode |-> "transition", scheduledWeeksCount |-> scheduledWeeks,
          useScheduledWeeks |-> TRUE, useHistoricalWeeks |-> TRUE,
          historicalLookbackDays |-> 60 - (scheduledWeeks * 7),
          historicalWeight |->
              MathMax(Lit_0_1, FSub(Lit_1_0, FMul(FInt(scheduledWeeks), Lit_0_3)))]
    ELSE [mode |-> "mature", scheduledWeeksCount |-> scheduledWeeks,
          useScheduledWeeks |-> TRUE, useHistoricalWeeks |-> FALSE,
          historicalLookbackDays |-> 0, historicalWeight |-> FZero]

\* scheduledWeeks is what countScheduledWeeks returned
determineLookbackStrategy(scheduledWeeks) ==
    IF scheduledWeeks = 0
    THEN [mode |-> "bootstrap", scheduledWeeksCount |-> 0,
          useScheduledWeeks |-> FALSE, useHistoricalWeeks |-> TRUE,
          historicalLookbackDays |-> 60, historicalWeight |-> Lit_1_0]
    ELSE IF scheduledWeeks < 4
    THEN [mode |-> "transition", scheduledWeeksCount |-> scheduledWeeks,
          useScheduledWeeks |-> TRUE, useHistoricalWeeks |-> TRUE,
          historicalLookbackDays |-> 60 - (scheduledWeeks * 7),
          historicalWeight |->
              MathMax(Lit_0_1, FSub(Lit_1_0, FMul(FInt(scheduledWeeks), Lit_0_3)))]
    ELSE [mode |-> "mature", scheduledWeeksCount |-> scheduledWeeks,
          useScheduledWeeks |-> TRUE, useHistoricalWeeks |-> FALSE,
          historicalLookbackDays |-> 0, historicalWeight |-> FZero]

(***************************************************************************)
(* weighted-statistics.ts.  A ReadingWithWeight is                         *)
(* [measurement_type, day_of_week, minute_of_day, data_quality, weight].   *)
(***************************************************************************)
\* [...readings].sort((a, b) => a.minute_of_day - b.minute_of_day): a stable sort
RECURSIVE InsertByMinute(_, _)
InsertByMinute(sorted, r) ==
    IF sorted = <<>> THEN <<r>>
    ELSE IF sorted[Len(sorted)].minute_of_day <= r.minute_of_day
    THEN Append(sorted, r)
    ELSE Append(InsertByMinute(SubSeq(sorted, 1, Len(sorted) - 1), r),
                sorted[Len(sorted)])

RECURSIVE SortByMinute(_)
SortByMinute(readings) ==
    IF readings = <<>> THEN <<>>
    ELSE InsertByMinute(SortByMinute(SubSeq(readings, 1, Len(readings) - 1)),
                        readings[Len(readings)])

\* sorted.reduce((sum, r) => sum + r.weight, 0)
RECURSIVE SumWeights(_)
SumWeights(readings) ==
    IF readings = <<>> THEN FZero
    ELSE FAdd(SumWeights(SubSeq(readings, 1, Len(readings) - 1)),
              readings[Len(readings)].weight)

\* the for loop of calculateWeightedMedian, from element i on
RECURSIVE MedianScan(_, _, _, _)
MedianScan(sorted, i, cumulativeWeight, targetWeight) ==
    IF i > Len(sorted)
    THEN sorted[(Len(sorted) \div 2) + 1].minute_of_day
    ELSE LET cum == FAdd(cumulativeWeight, sorted[i].weight)
         IN  IF FLe(targetWeight, cum)
             THEN sorted[i].minute_of_day
             ELSE MedianScan(sorted, i + 1, cum, targetWeight)

calculateWeightedMedian_Upper(readings) ==
    IF Len(readings) = 0 THEN 0
    ELSE LET sorted == SortByMinute(readings)
         IN  sorted[(Len(sorted) \div 2) + 1].minute_of_day

calculateWeightedMedian(readings) ==
    IF Len(readings) = 0 THEN 0
    ELSE LET sorted       == SortByMinute(readings)
             totalWeight  == SumWeights(sorted)
             targetWeight == FHalf(totalWeight)
         IN  MedianScan(sorted, 1, FZero, targetWeight)

CountQuality(readings, q) ==
    Cardinality({i \in 1..Len(readings) : readings[i].data_quality = q})

calculateConfidence_NoClamp(readings, strategy) ==
    IF Len(readings) < 3 THEN Lit_0_5
    ELSE LET scheduled  == CountQuality(readings, "scheduled_week")
             historical == CountQuality(readings, "historical")
             scheduledBonus  == MathMin(Lit_0_2, FMul(FInt(scheduled), Lit_0_04))
             historicalBonus ==
                 MathMin(Lit_0_1,
                         FMul(FMul(FInt(historical), Lit_0_02),
                              strategy.historicalWeight))
             scheduledRatio == FDec(scheduled, Len(readings))
         IN  FAdd(FAdd(FAdd(Lit_0_7, scheduledBonus), historicalBonus),
                  FMul(scheduledRatio, Lit_0_1))

calculateConfidence_HistoricalRatio(readings, strategy) ==
    IF Len(readings) < 3 THEN Lit_0_5
    ELSE LET scheduled  == CountQuality(readings, "scheduled_week")
             historical == CountQuality(readings, "historical")
             scheduledBonus  == MathMin(Lit_0_2, FMul(FInt(scheduled), Lit_0_04))
             historicalBonus ==
                 MathMin(Lit_0_1,
                         FMul(FMul(FInt(historical), Lit_0_02),
                              strategy.historicalWeight))
             scheduledRatio == FDec(historical, Len(readings))
         IN  MathMin(Lit_1_0,
                     FAdd(FAdd(FAdd(Lit_0_7, scheduledBonus), historicalBonus),
                          FMul(scheduledRatio, Lit_0_1)))

calculateConfidence_SwappedBonuses(readings, strategy) ==
    IF Len(readings) < 3 THEN Lit_0_5
    ELSE LET scheduled  == CountQuality(readings, "scheduled_week")
             historical == CountQuality(readings, "historical")
             scheduledBonus  == MathMin(Lit_0_1, FMul(FInt(scheduled), Lit_0_02))
             historicalBonus ==
                 MathMin(Lit_0_2,
                         FMul(FMul(FInt(historical), Lit_0_04),
                              strategy.historicalWeight))
             scheduledRatio == FDec(scheduled, Len(readings))
         IN  MathMin(Lit_1_0,
                     FAdd(FAdd(FAdd(Lit_0_7, scheduledBonus), historicalBonus),
                          FMul(scheduledRatio, Lit_0_1)))

calculateConfidence(readings, strategy) ==
    IF Len(readings) < 3 THEN Lit_0_5
    ELSE LET scheduled  == CountQuality(readings, "scheduled_week")
             historical == CountQuality(readings, "historical")
             \* Math.min(0.2, scheduledReadings.length * 0.04)
             scheduledBonus  == MathMin(Lit_0_2, FMul(FInt(scheduled), Lit_0_04))
             \* Math.min(0.1, historicalReadings.length * 0.02 * strategy.historicalWeight)
             historicalBonus ==
                 MathMin(Lit_0_1,
                         FMul(FMul(FInt(historical), Lit_0_02),
                              strategy.historicalWeight))
             scheduledRatio == FDec(scheduled, Len(readings))
         IN  MathMin(Lit_1_0,
                     FAdd(FAdd(FAdd(Lit_0_7, scheduledBonus), historicalBonus),
                          FMul(scheduledRatio, Lit_0_1)))

\* the keep test of filterOutliersByWeight, on the doubled deviations
\* d2 = 2 |v - median| (the median of an even count is a half-integer).
\* With S the sum of the d2^2, the variance is S / (4 n) and
\*     dev <= threshold * (stdDev || 1),  threshold = 2,
\* is d2 <= 4 when S = 0 and n * d2^2 <= 4 * S otherwise: the squares and
\* their sum are exact in binary64, and where n * d2^2 = 4 * S the variance
\* is the exact square (d2 / 4)^2, so the rounding of / and sqrt decides
\* no comparison.
RECURSIVE SumSquares(_, _)
SumSquares(values, median2) ==
    IF values = <<>> THEN 0
    ELSE LET d2 == 2 * values[Len(values)] - median2
         IN  d2 * d2 + SumSquares(SubSeq(values, 1, Len(values) - 1), median2)

Abs(i) == IF i < 0 THEN -i ELSE i

\* twice the unweighted median of the minutes
Median2(readings) ==
    LET sorted == SortByMinute(readings)
        mid    == Len(sorted) \div 2
    IN  IF Len(sorted) % 2 = 0
        THEN sorted[mid].minute_of_day + sorted[mid + 1].minute_of_day
        ELSE 2 * sorted[mid + 1].minute_of_day

WithinThreshold(minute, median2, sumSq, n) ==
    LET d2 == Abs(2 * minute - median2)
    IN  IF sumSq = 0 THEN d2 <= 4 ELSE n * d2 * d2 <= 4 * sumSq

\* the filter with a threshold of 1 in place of the default 2
filterOutliersByWeight_Threshold1(readings) ==
    IF Len(readings) < 3 THEN readings
    ELSE LET median2 == Median2(readings)
             values  == [i \in 1..Len(readings) |-> readings[i].minute_of_day]
             sumSq   == SumSquares(values, median2)
         IN  SelectSeq(readings,
                 LAMBDA r :
                     LET d2 == Abs(2 * r.minute_of_day - median2)
                     IN  IF sumSq = 0 THEN d2 <= 2
                         ELSE Len(readings) * d2 * d2 <= sumSq)

filterOutliersByWeight(readings) ==
    IF Len(readings) < 3 THEN readings
    ELSE LET median2 == Median2(readings)
             values  == [i \in 1..Len(readings) |-> readings[i].minute_of_day]
             sumSq   == SumSquares(values, median2)
         IN  SelectSeq(readings,
                 LAMBDA r : WithinThreshold(r.minute_of_day, median2, sumSq,
                                            Len(readings)))

(***************************************************************************)
(* Time.  An instant is a count of minutes since a Monday 00:00 UTC;       *)
(* Europe/Warsaw is one hour ahead (CET, the winter weeks of the           *)
(* repository's tests).                                                    *)
(***************************************************************************)
UtcOffsetMinutes == 60
MinutesPerDay == 1440

\* toZonedTime(utcDate, TIMEZONE), then getDay(), getHours() * 60 + getMinutes()
\* and the local date
toLocalParts(instant) ==
    LET local == instant + UtcOffsetMinutes
    IN  [day_of_week   |-> ((local \div MinutesPerDay) + 1) % 7,
         minute_of_day |-> local % MinutesPerDay,
         date          |-> local \div MinutesPerDay]

\* new Date() - days (lookbackDate.setDate(getDate() - days))
LookbackDate(now, days) == now - days * MinutesPerDay

(***************************************************************************)
(* adaptive-lookback.ts: the readings.  A glucose_readings row is          *)
(* [measured_at, measurement_type, reading_context].                       *)
(***************************************************************************)
ToReadingWithWeight(row, quality, weight) ==
    LET parts == toLocalParts(row.measured_at)
    IN  [measurement_type |-> row.measurement_type,
         day_of_week      |-> parts.day_of_week,
         minute_of_day    |-> parts.minute_of_day,
         date             |-> parts.date,
         data_quality     |-> quality,
         weight           |-> weight]

MapReadings(rows, quality, weight) ==
    [i \in 1..Len(rows) |-> ToReadingWithWeight(rows[i], quality, weight)]

\* the inner fetchReadings of fetchReadingsWithContext; a failed query gives []
fetchReadings(rows, now, daysLookback, quality, weight, queryError) ==
    IF queryError THEN <<>>
    ELSE MapReadings(
             SelectSeq(rows, LAMBDA r :
                 /\ r.measured_at >= LookbackDate(now, daysLookback)
                 /\ IF quality = "scheduled_week"
                    THEN r.reading_context = "scheduled_prompt"
                    ELSE r.reading_context # "scheduled_prompt"),
             quality, weight)

\* rows: the user's glucose_readings
fetchReadingsWithContext(rows, now, strategy, queryError) ==
    (IF strategy.useScheduledWeeks
     THEN fetchReadings(rows, now, 90, "scheduled_week", Lit_1_0, queryError)
     ELSE <<>>)
    \o
    (IF strategy.useHistoricalWeeks /\ strategy.historicalLookbackDays > 0
     THEN fetchReadings(rows, now, strategy.historicalLookbackDays, "historical",
                        strategy.historicalWeight, queryError)
     ELSE <<>>)

\* the fallback taken in every mode
applyAdaptiveFallback_AnyMode(rows, now, readings, strategy, window, queryError) ==
    IF Len(readings) < 3
    THEN IF queryError THEN readings
         ELSE readings \o
              MapReadings(
                  SelectSeq(rows, LAMBDA r :
                      /\ r.measurement_type = window.measurement_type
                      /\ r.measured_at >= LookbackDate(now, 30)),
                  "historical", Lit_0_5)
    ELSE readings

applyAdaptiveFallback(rows, now, readings, strategy, window, queryError) ==
    IF strategy.mode = "mature" /\ Len(readings) < 3
    THEN IF queryError THEN readings
         ELSE readings \o
              MapReadings(
                  SelectSeq(rows, LAMBDA r :
                      /\ r.measurement_type = window.measurement_type
                      /\ r.measured_at >= LookbackDate(now, 30)),
                  "historical", Lit_0_5)
    ELSE readings

(***************************************************************************)
(* schedule-generator.ts.  A MealWindow is [id, user_id, day_of_week,      *)
(* measurement_type, time_start, time_end], a time being <<hours, minutes>>.*)
(***************************************************************************)
timeToMinutes(timeStr) == timeStr[1] * 60 + timeStr[2]

\* Math.round(n / 2) for a natural number n
RoundHalf(n) == (n + 1) \div 2

Max(a, b) == IF a >= b THEN a ELSE b
Min(a, b) == IF a <= b THEN a ELSE b

\* steps 1 to 3 of generateScheduleForWindow: the readings of the window
WindowReadings(rows, now, window, allReadings, strategy, queryError) ==
    LET startMinute == timeToMinutes(window.time_start)
        endMinute   == timeToMinutes(window.time_end)
        extracted   == SelectSeq(allReadings, LAMBDA r :
                           /\ r.measurement_type = window.measurement_type
                           /\ r.day_of_week = window.day_of_week
                           /\ r.minute_of_day >= startMinute
                           /\ r.minute_of_day <= endMinute)
    IN  applyAdaptiveFallback(rows, now, filterOutliersByWeight(extracted),
                              strategy, window, queryError)

\* the default timing of a window without enough readings
DefaultMinute_NoClamp(window) ==
    IF window.measurement_type = "fasting"
    THEN RoundHalf(timeToMinutes(window.time_start) + timeToMinutes(window.time_end))
    ELSE timeToMinutes(window.time_end) - 30

DefaultMinute(window) ==
    LET startMinute == timeToMinutes(window.time_start)
        endMinute   == timeToMinutes(window.time_end)
        target      == IF window.measurement_type = "fasting"
                       THEN RoundHalf(startMinute + endMinute)
                       ELSE endMinute - 30
    IN  Max(startMinute, Min(endMinute, target))

\* toZonedTime(targetMonday), setDate(+ daysToAdd), setHours(target / 60,
\* target % 60, 0, 0), fromZonedTime: the wall-clock time targetMinute of the
\* local day, as an instant
ScheduledAt(targetMonday, dayOfWeek, targetMinute) ==
    LET daysToAdd == IF dayOfWeek = 0 THEN 6 ELSE dayOfWeek - 1
        localDay  == toLocalParts(targetMonday).date + daysToAdd
    IN  localDay * MinutesPerDay + targetMinute - UtcOffsetMinutes

MakeCandidate(window, windowReadings, targetMinute, confidence, source, targetMonday) ==
    [user_id          |-> window.user_id,
     meal_window_id   |-> window.id,
     measurement_type |-> window.measurement_type,
     day_of_week      |-> window.day_of_week,
     minute_of_day    |-> targetMinute,
     scheduled_at     |-> ScheduledAt(targetMonday, window.day_of_week, targetMinute),
     confidence       |-> confidence,
     source           |-> source,
     readings_count   |-> Len(windowReadings),
     data_quality_breakdown |->
         [scheduled  |-> CountQuality(windowReadings, "scheduled_week"),
          historical |-> CountQuality(windowReadings, "historical")]]

generateScheduleForWindow_Two(rows, now, window, allReadings, strategy, targetMonday, queryError) ==
    LET windowReadings ==
            WindowReadings(rows, now, window, allReadings, strategy, queryError)
    IN  IF Len(windowReadings) >= 2
        THEN MakeCandidate(window, windowReadings,
                           calculateWeightedMedian(windowReadings) + 5,
                           calculateConfidence(windowReadings, strategy),
                           "history", targetMonday)
        ELSE MakeCandidate(window, windowReadings, DefaultMinute(window),
                           Lit_0_5, "default_window", targetMonday)

\* the median is the minute_of_day of a reading, an integer, and Math.round
\* leaves it as it is
generateScheduleForWindow(rows, now, window, allReadings, strategy, targetMonday, queryError) ==
    LET windowReadings ==
            WindowReadings(rows, now, window, allReadings, strategy, queryError)
    IN  IF Len(windowReadings) >= 3
        THEN MakeCandidate(window, windowReadings,
                           calculateWeightedMedian(windowReadings) + 5,
                           calculateConfidence(windowReadings, strategy),
                           "history", targetMonday)
        ELSE MakeCandidate(window, windowReadings, DefaultMinute(window),
                           Lit_0_5, "default_window", targetMonday)

(***************************************************************************)
(* enforceSpacingByConfidence.  scheduled_at is an instant in minutes (the *)
(* ISO strings hold whole minutes and new Date(...).getTime() reads them   *)
(* back in milliseconds).                                                  *)
(***************************************************************************)
\* pool.sort((a, b) => b.confidence - a.confidence): stable, descending
RECURSIVE InsertByConfidence(_, _)
InsertByConfidence(sorted, c) ==
    IF sorted = <<>> THEN <<c>>
    ELSE IF FLt(Head(sorted).confidence, c.confidence) THEN <<c>> \o sorted
    ELSE <<Head(sorted)>> \o InsertByConfidence(Tail(sorted), c)

\* the order of keeping the earliest first
SortByConfidence_InputOrder(seq) == seq

RECURSIVE SortByConfidence(_)
SortByConfidence(seq) ==
    IF seq = <<>> THEN <<>>
    ELSE InsertByConfidence(SortByConfidence(SubSeq(seq, 1, Len(seq) - 1)),
                            seq[Len(seq)])

\* sort((a, b) => getTime(a.scheduled_at) - getTime(b.scheduled_at)): stable
RECURSIVE InsertByScheduledAt(_, _)
InsertByScheduledAt(sorted, c) ==
    IF sorted = <<>> THEN <<c>>
    ELSE IF c.scheduled_at < Head(sorted).scheduled_at THEN <<c>> \o sorted
    ELSE <<Head(sorted)>> \o InsertByScheduledAt(Tail(sorted), c)

RECURSIVE SortByScheduledAt(_)
SortByScheduledAt(seq) ==
    IF seq = <<>> THEN <<>>
    ELSE InsertByScheduledAt(SortByScheduledAt(SubSeq(seq, 1, Len(seq) - 1)),
                             seq[Len(seq)])

\* the difference taken in seconds
DiffMinutes_Seconds(cTime, bestTime) == Abs(cTime - bestTime) * 60

\* Math.abs(cTime - bestTime) / (1000 * 60)
DiffMinutes(cTime, bestTime) == Abs(cTime - bestTime)

\* the while loop: shift the best, keep it, filter the pool
RECURSIVE GreedyByConfidence(_, _)
GreedyByConfidence(pool, minSpacingMinutes) ==
    IF pool = <<>> THEN <<>>
    ELSE LET best == Head(pool)
         IN  <<best>> \o
             GreedyByConfidence(
                 SelectSeq(Tail(pool), LAMBDA c :
                     DiffMinutes(c.scheduled_at, best.scheduled_at)
                         >= minSpacingMinutes),
                 minSpacingMinutes)

enforceSpacingByConfidence(candidates, minSpacingMinutes) ==
    IF candidates = <<>> THEN <<>>
    ELSE SortByScheduledAt(
             GreedyByConfidence(SortByConfidence(candidates), minSpacingMinutes))

(***************************************************************************)
(* filtering.ts.  A Reading is [measurement_type, day_of_week,             *)
(* minute_of_day]; timeToMinutes (filtering.ts 42-45) is the function of   *)
(* the same name of schedule-generator.ts.                                 *)
(***************************************************************************)
filterReadingsByMealWindows_ExclusiveEnd(readings, mealWindows) ==
    IF mealWindows = <<>> THEN readings
    ELSE SelectSeq(readings,
            LAMBDA reading :
                \E i \in 1..Len(mealWindows) :
                    /\ mealWindows[i].day_of_week = reading.day_of_week
                    /\ mealWindows[i].measurement_type = reading.measurement_type
                    /\ reading.minute_of_day >= timeToMinutes(mealWindows[i].time_start)
                    /\ reading.minute_of_day < timeToMinutes(mealWindows[i].time_end))

filterReadingsByMealWindows(readings, mealWindows) ==
    IF mealWindows = <<>> THEN readings
    ELSE SelectSeq(readings,
            LAMBDA reading :
                LET applicableWindows ==
                        SelectSeq(mealWindows,
                            LAMBDA window :
                                /\ window.day_of_week = reading.day_of_week
                                /\ window.measurement_type = reading.measurement_type)
                IN  IF Len(applicableWindows) = 0 THEN FALSE
                    ELSE \E i \in 1..Len(applicableWindows) :
                            LET startMinute == timeToMinutes(applicableWindows[i].time_start)
                                endMinute   == timeToMinutes(applicableWindows[i].time_end)
                                readingMinute == reading.minute_of_day
                            IN  readingMinute >= startMinute /\ readingMinute <= endMinute)

InsertValue(v, sorted) ==
    LET k == Cardinality({i \in 1..Len(sorted) : sorted[i] <= v})
    IN  SubSeq(sorted, 1, k) \o <<v>> \o SubSeq(sorted, k + 1, Len(sorted))

\* [...minutesOfDay].sort((a, b) => a - b)
RECURSIVE SortValues(_)
SortValues(values) ==
    IF values = <<>> THEN <<>>
    ELSE InsertValue(values[Len(values)], SortValues(SubSeq(values, 1, Len(values) - 1)))

\* twice the medianValue of detectStatisticalOutliers
MedianValue2(minutesOfDay) ==
    LET sorted == SortValues(minutesOfDay)
        mid    == Len(sorted) \div 2
    IN  IF Len(sorted) % 2 = 0
        THEN sorted[mid] + sorted[mid + 1]
        ELSE 2 * sorted[mid + 1]

\* the keep test of detectStatisticalOutliers,
\*     Math.abs(m - medianValue) / (stdDev || 1) <= threshold,
\* on the doubled deviation d2 = 2 |m - medianValue|, with S the sum of the
\* d2^2 and the variance S / (4 n): d2 <= 2 threshold when S = 0, and
\* n * d2^2 <= threshold^2 * S otherwise.  For a threshold that is a power
\* of two the rounding of /, sqrt and / decides no comparison: where
\* n * d2^2 = threshold^2 * S the variance is the exact square
\* (d2 / (2 threshold))^2, and elsewhere the two sides differ by a factor
\* of at least 1 + 1 / (8 S).
DeviationsWithin(m, median2, sumSq, n, threshold) ==
    LET d2 == Abs(2 * m - median2)
    IN  IF sumSq = 0 THEN d2 <= 2 * threshold
        ELSE n * d2 * d2 <= threshold * threshold * sumSq

\* without '|| 1': 0 / 0 is NaN, and NaN <= threshold is false
detectStatisticalOutliers_NoFallback(minutesOfDay, threshold) ==
    IF Len(minutesOfDay) < 3 THEN minutesOfDay
    ELSE LET median2 == MedianValue2(minutesOfDay)
             sumSq   == SumSquares(minutesOfDay, median2)
         IN  SelectSeq(minutesOfDay,
                 LAMBDA m : /\ sumSq # 0
                            /\ DeviationsWithin(m, median2, sumSq, Len(minutesOfDay),
                                                threshold))

detectStatisticalOutliers(minutesOfDay, threshold) ==
    IF Len(minutesOfDay) < 3 THEN minutesOfDay
    ELSE LET median2 == MedianValue2(minutesOfDay)
             sumSq   == SumSquares(minutesOfDay, median2)
         IN  SelectSeq(minutesOfDay,
                 LAMBDA m : DeviationsWithin(m, median2, sumSq, Len(minutesOfDay),
                                             threshold))

\* scheduleDate.getHours() * 60 + scheduleDate.getMinutes(), the zone of
\* the runtime being UTC
DateMinuteOfDay(instant) == instant % MinutesPerDay

\* the for loop of enforceMinimumSpacing over the sorted schedules;
\* lastKeptMinute is -1 for null
RECURSIVE MinimumSpacingSweep(_, _, _, _)
MinimumSpacingSweep(sorted, toKeep, lastKeptMinute, minSpacingMinutes) ==
    IF sorted = <<>> THEN toKeep
    ELSE LET schedule == Head(sorted)
             currentMinute == DateMinuteOfDay(schedule.scheduled_at)
         IN  IF lastKeptMinute = -1
                \/ currentMinute - lastKeptMinute >= minSpacingMinutes
             THEN MinimumSpacingSweep(Tail(sorted), Append(toKeep, schedule),
                                      currentMinute, minSpacingMinutes)
             ELSE LET previous == toKeep[Len(toKeep)]
                  IN  IF schedule.frequency > previous.frequency
                      THEN MinimumSpacingSweep(
                               Tail(sorted),
                               [toKeep EXCEPT ![Len(toKeep)] = schedule],
                               currentMinute, minSpacingMinutes)
                      ELSE MinimumSpacingSweep(Tail(sorted), toKeep, lastKeptMinute,
                                               minSpacingMinutes)

\* a Schedule is [user_id, measurement_type, scheduled_at, frequency], the
\* frequency being 0 where the field is missing (schedule.frequency || 0)
enforceMinimumSpacing(schedules, minSpacingMinutes) ==
    IF Len(schedules) = 0 THEN schedules
    ELSE MinimumSpacingSweep(SortByScheduledAt(schedules), <<>>, -1, minSpacingMinutes)

\* scheduleDate.getUTCDay()
GetUTCDay(instant) == ((instant \div MinutesPerDay) + 1) % 7

\* defaultCreateScheduleDate: setDate(getDate() + daysToAdd) in a runtime whose
\* zone is UTC, then setUTCHours, setUTCMinutes
defaultCreateScheduleDate(dayOfWeek, minuteOfDay, targetMonday) ==
    LET daysToAdd == IF dayOfWeek = 0 THEN 6 ELSE dayOfWeek - 1
        reminderDate == targetMonday + daysToAdd * MinutesPerDay
    IN  (reminderDate \div MinutesPerDay) * MinutesPerDay
        + (minuteOfDay \div 60) * 60 + (minuteOfDay % 60)

\* the coverage map: the keys user_id|day_of_week|measurement_type
CoverageKey(user, dayOfWeek, type) == <<user, dayOfWeek, type>>

CoverageOf(adjustedSchedules) ==
    { CoverageKey(adjustedSchedules[i].user_id,
                  GetUTCDay(adjustedSchedules[i].scheduled_at),
                  adjustedSchedules[i].measurement_type) :
        i \in 1..Len(adjustedSchedules) }

\* the keys of windowsByUser, in insertion order
RECURSIVE WindowUsers(_)
WindowUsers(mealWindows) ==
    IF mealWindows = <<>> THEN <<>>
    ELSE LET before == WindowUsers(SubSeq(mealWindows, 1, Len(mealWindows) - 1))
             user   == mealWindows[Len(mealWindows)].user_id
         IN  IF \E i \in 1..Len(before) : before[i] = user THEN before
             ELSE Append(before, user)

\* the windows in the order of the two nested for loops
RECURSIVE WindowsByUser(_, _)
WindowsByUser(users, mealWindows) ==
    IF users = <<>> THEN <<>>
    ELSE SelectSeq(mealWindows, LAMBDA w : w.user_id = Head(users))
         \o WindowsByUser(Tail(users), mealWindows)

GapFiller(window, reminderMinute, targetMonday) ==
    [user_id |-> window.user_id,
     measurement_type |-> window.measurement_type,
     scheduled_at |-> defaultCreateScheduleDate(window.day_of_week, reminderMinute,
                                                targetMonday),
     minute_of_day |-> reminderMinute,
     frequency |-> 0,
     is_default_reminder |-> TRUE]

\* the body of the loops; userMeasurementTypes is a function from the users
\* that have an entry to their sets of types
RECURSIVE FillLoop(_, _, _, _, _)
FillLoop(windows, coverage, gapFillers, userMeasurementTypes, targetMonday) ==
    IF windows = <<>> THEN gapFillers
    ELSE LET window == Head(windows)
             key == CoverageKey(window.user_id, window.day_of_week,
                                window.measurement_type)
             reminderMinute ==
                 Max(timeToMinutes(window.time_start),
                     timeToMinutes(window.time_end) - 20)
         IN  IF \/ window.user_id \notin DOMAIN userMeasurementTypes
                \/ window.measurement_type \notin userMeasurementTypes[window.user_id]
                \/ key \in coverage
             THEN FillLoop(Tail(windows), coverage, gapFillers, userMeasurementTypes,
                           targetMonday)
             ELSE FillLoop(Tail(windows), coverage \cup {key},
                           Append(gapFillers, GapFiller(window, reminderMinute, targetMonday)),
                           userMeasurementTypes, targetMonday)

fillMissingMealWindowReminders(adjustedSchedules, mealWindows, userMeasurementTypes, targetMonday) ==
    FillLoop(WindowsByUser(WindowUsers(mealWindows), mealWindows),
             CoverageOf(adjustedSchedules), <<>>, userMeasurementTypes, targetMonday)

(***************************************************************************)
(* Bounds of the model                                                     *)
(***************************************************************************)
\* countScheduledWeeks returns 0..MaxWeeks
MaxWeeks == 5
\* longest reading list built one reading at a time
MaxStatReadings == 3
\* most readings of one quality in a list built by count
MaxPerQuality == 6
\* most glucose_readings rows of the user whose window is scheduled
MaxRows == 5
\* most candidates handed to enforceSpacingByConfidence
MaxCandidates == 3
\* most invocations of the scheduler, one after the other
MaxInvocations == 2
\* most executions of the per-user pipeline on the same data
MaxExecutions == 2
\* most advances of the clock between those executions
MaxTicks == 1
\* longest list of readings given to filterReadingsByMealWindows
MaxFilterReadings == 3
\* longest list of meal windows given to filterReadingsByMealWindows
MaxFilterWindows == 2
\* longest list of minute values built for the outlier filters
MaxOutlierValues == 5
\* longest list of schedules given to enforceMinimumSpacing
MaxMinSchedules == 3
\* longest list of meal windows given to fillMissingMealWindowReminders
MaxGapWindows == 3
\* longest list of schedules given to fillMissingMealWindowReminders
MaxGapSchedules == 2
\* number of concurrent invocations of the scheduler
MaxConcurrent == 2
\* number of dispatcher runs that may overlap
MaxDispatchers == 2
\* number of five-minute steps of the dispatcher's clock
MaxDispatchTicks == 4

(***************************************************************************)
(* State                                                                   *)
(***************************************************************************)
VARIABLES
    sWeeks,          \* statistics: the scheduled-weeks count
    sStrategy,       \* statistics: the LookbackStrategy (NoStrategy before it is determined)
    sReadings,       \* statistics: the ReadingWithWeight[] handed to the functions
    sMedian,         \* statistics: calculateWeightedMedian(sReadings)
    sConfidence,     \* statistics: calculateConfidence(sReadings, sStrategy)
    sConfidenceMore, \* statistics: the same with one more scheduled_week reading
    wPc,             \* one window: "seed", "strategy", "fetch", "generate" or "done"
    wWeeks,          \* one window: what countScheduledWeeks returns
    wWindow,         \* one window: the MealWindow
    wRows,           \* one window: the user's glucose_readings rows
    wStrategy,       \* one window: the LookbackStrategy
    wFetchFailed,    \* one window: whether the queries of the fetch failed
    wAllReadings,    \* one window: what fetchReadingsWithContext returned
    wFallbackFailed, \* one window: whether the query of the fallback failed
    wWindowReadings, \* one window: the readings the candidate was computed from
    wCandidate,      \* one window: the ScheduleCandidate (NoCandidate before)
    spPc,            \* spacing: "build" or "done"
    spCandidates,    \* spacing: the candidates handed to enforceSpacingByConfidence
    spMinSpacing,    \* spacing: minSpacingMinutes
    spFinal,         \* spacing: the schedules returned
    hPc,                     \* handler: the await the invocation stands at
    notification_schedule_runs, \* table: the run row of the target week (NoRun: none)
    notification_schedules,  \* table: the rows, in insertion order
    user_settings,           \* table: the users with push_notifications_enabled
    user_meal_windows,       \* table: user -> sequence of MealWindow
    glucose_readings,        \* table: user -> sequence of rows
    scheduled_weeks,         \* what count_scheduled_weeks returns for each user
    hEligibleUsers,          \* handler: the users still to iterate
    hUserWindows,            \* handler: userWindows of the user being processed
    hStrategy,               \* handler: strategy
    hReadings,               \* handler: readings
    hFinalSchedules,         \* handler: finalSchedules
    processedUsers,          \* handler: the counter
    totalSchedulesCreated,   \* handler: the counter
    hInsertErrors,           \* console.error: users whose insert failed
    hFetchErrors,            \* console.error: users whose count or readings query failed
    hResponse,               \* handler: the Response (NoResponse before)
    hInvocation,             \* the number of the invocation (0: none yet)
    hRowsBefore,             \* history: the user's rows of the week before the delete
    pNow,                    \* pipeline: the clock, new Date()
    pWindows,                \* pipeline: the user's meal windows
    pRows,                   \* pipeline: the user's glucose_readings rows
    pWeeks,                  \* pipeline: the user's completed scheduled weeks
    pRuns,                   \* pipeline: the final schedules of each execution
    fPc,                     \* meal-window filter: "build" or "done"
    fReadings,               \* meal-window filter: the readings
    fWindows,                \* meal-window filter: the mealWindows
    fFiltered,               \* meal-window filter: the result
    oPc,                     \* outliers: "build" or "done"
    oValues,                 \* outliers: the minute values
    oThreshold,              \* outliers: the threshold
    oKept,                   \* outliers: result of detectStatisticalOutliers
    oKeptByWeight,           \* outliers: result of filterOutliersByWeight
    mPc,                     \* minimum spacing: "build" or "done"
    mSchedules,              \* minimum spacing: the schedules
    mKept,                   \* minimum spacing: result of enforceMinimumSpacing
    gPc,                     \* gap filling: "build" or "done"
    gSchedules,              \* gap filling: the adjustedSchedules
    gWindows,                \* gap filling: the mealWindows
    gTypes,                  \* gap filling: the userMeasurementTypes
    gFillers,                \* gap filling: result of fillMissingMealWindowReminders
    rPc,                     \* concurrent invocations: position of each
    rRun,                    \* concurrent invocations: the run row of the week
    rRunsCreated,            \* concurrent invocations: run rows inserted so far
    rSchedules,              \* concurrent invocations: notification_schedules
    rWrote,                  \* concurrent invocations: who deleted or inserted rows
    rResponse,               \* concurrent invocations: the Response of each
    dNow,                    \* dispatcher: the clock (new Date())
    dStatus,                 \* dispatcher: notification_schedules.status by row id
    dPushes,                 \* dispatcher: push notifications sent, by row id
    dPc,                     \* dispatcher: position of each run
    dQueue,                  \* dispatcher: schedules a run has still to process
    dResult,                 \* dispatcher: the DispatchResult a run is about to store
    dResponse                \* dispatcher: status of the last Response of each run

statVars == <<sWeeks, sStrategy, sReadings, sMedian, sConfidence, sConfidenceMore>>
winVars == <<wPc, wWeeks, wWindow, wRows, wStrategy, wFetchFailed, wAllReadings,
             wFallbackFailed, wWindowReadings, wCandidate>>
spVars == <<spPc, spCandidates, spMinSpacing, spFinal>>
dbVars == <<notification_schedule_runs, notification_schedules, user_settings,
            user_meal_windows, glucose_readings, scheduled_weeks>>
localVars == <<hEligibleUsers, hUserWindows, hStrategy, hReadings, hFinalSchedules,
               processedUsers, totalSchedulesCreated, hInsertErrors, hFetchErrors,
               hResponse>>
handlerVars == <<hPc, dbVars, localVars, hInvocation, hRowsBefore>>
pipeVars == <<pNow, pWindows, pRows, pWeeks, pRuns>>
filterVars == <<fPc, fReadings, fWindows, fFiltered>>
outlierVars == <<oPc, oValues, oThreshold, oKept, oKeptByWeight>>
minVars == <<mPc, mSchedules, mKept>>
gapVars == <<gPc, gSchedules, gWindows, gTypes, gFillers>>
raceVars == <<rPc, rRun, rRunsCreated, rSchedules, rWrote, rResponse>>
dispVars == <<dNow, dStatus, dPushes, dPc, dQueue, dResult, dResponse>>
vars == <<statVars, winVars, spVars, handlerVars, pipeVars, filterVars, outlierVars,
         minVars,
         gapVars,
         raceVars,
         dispVars>>

\* no strategy determined yet
NoStrategy == [mode |-> "none"]
NoCandidate == [source |-> "none"]

(***************************************************************************)
(* The week being scheduled and the time of the run                        *)
(***************************************************************************)
\* getNextMondayUTC(): Monday 00:00 in Warsaw, fifteen weeks after the epoch
TargetMonday == 15 * 7 * MinutesPerDay - UtcOffsetMinutes
\* new Date() during the run: the Sunday evening before
RunTime == TargetMonday - 4 * 60

\* the instant of a wall-clock minute of a day of the k-th week before the target week
LocalInstant(weeksBefore, dayOfWeek, minute) ==
    ScheduledAt(TargetMonday - weeksBefore * 7 * MinutesPerDay, dayOfWeek, minute)

(***************************************************************************)
(* generateScheduleForWindow applied to one window of one user             *)
(* (SpecWindow): rows are inserted, then the strategy is determined, the   *)
(* readings are fetched and the candidate is generated, as the handler and *)
(* the integration tests do.                                               *)
(***************************************************************************)
Row(weeksBefore, dayOfWeek, minute, type, context) ==
    [measured_at      |-> LocalInstant(weeksBefore, dayOfWeek, minute),
     measurement_type |-> type,
     reading_context  |-> context]

\* the rows a user may have: in and out of the windows below, prompted and
\* organic, of last week and of seven weeks ago
RowKinds ==
    << Row(1, 1, 480, "fasting", "organic"),
       Row(1, 1, 590, "fasting", "organic"),
       Row(1, 1, 470, "fasting", "scheduled_prompt"),
       Row(1, 2, 900, "fasting", "organic"),
       Row(7, 1, 480, "fasting", "organic"),
       Row(1, 1, 610, "1hr_after_meal", "organic") >>

Window(id, user, dayOfWeek, type, timeStart, timeEnd) ==
    [id |-> id, user_id |-> user, day_of_week |-> dayOfWeek,
     measurement_type |-> type, time_start |-> timeStart, time_end |-> timeEnd]

WindowShapes ==
    { Window("w1", "u1", 1, "fasting", <<6, 0>>, <<10, 0>>),
      Window("w2", "u1", 1, "fasting", <<7, 30>>, <<9, 5>>),
      Window("w3", "u1", 1, "1hr_after_meal", <<10, 0>>, <<10, 20>>) }

WindowWeeks == {0, 2, 4}

KindIndex(row) == CHOOSE k \in 1..Len(RowKinds) : RowKinds[k] = row

WinIdle ==
    /\ wPc = "idle"
    /\ wWeeks = 0
    /\ wWindow = Window("w1", "u1", 1, "fasting", <<6, 0>>, <<10, 0>>)
    /\ wRows = <<>>
    /\ wStrategy = NoStrategy
    /\ wFetchFailed = FALSE
    /\ wAllReadings = <<>>
    /\ wFallbackFailed = FALSE
    /\ wWindowReadings = <<>>
    /\ wCandidate = NoCandidate

WinInit ==
    /\ wPc = "seed"
    /\ wWeeks \in WindowWeeks
    /\ wWindow \in WindowShapes
    /\ wRows = <<>>
    /\ wStrategy = NoStrategy
    /\ wFetchFailed = FALSE
    /\ wAllReadings = <<>>
    /\ wFallbackFailed = FALSE
    /\ wWindowReadings = <<>>
    /\ wCandidate = NoCandidate

\* a reading is stored (the rows are kept in the order of RowKinds: the
\* statistics do not depend on the order of the rows)
WinInsertReading ==
    /\ wPc = "seed"
    /\ Len(wRows) < MaxRows
    /\ \E k \in 1..Len(RowKinds) :
           /\ IF wRows = <<>> THEN TRUE ELSE KindIndex(wRows[Len(wRows)]) <= k
           /\ wRows' = Append(wRows, RowKinds[k])
    /\ UNCHANGED <<wPc, wWeeks, wWindow, wStrategy, wFetchFailed, wAllReadings,
                   wFallbackFailed, wWindowReadings, wCandidate, statVars, spVars, handlerVars, pipeVars, filterVars, outlierVars,
                   minVars, gapVars, raceVars, dispVars>>

WinDetermineStrategy ==
    /\ wPc = "seed"
    /\ wStrategy' = determineLookbackStrategy(wWeeks)
    /\ wPc' = "fetch"
    /\ UNCHANGED <<wWeeks, wWindow, wRows, wFetchFailed, wAllReadings,
                   wFallbackFailed, wWindowReadings, wCandidate, statVars, spVars, handlerVars, pipeVars, filterVars, outlierVars,
                   minVars, gapVars, raceVars, dispVars>>

WinFetchReadings ==
    /\ wPc = "fetch"
    /\ \E queryError \in BOOLEAN :
           /\ wFetchFailed' = queryError
           /\ wAllReadings' =
                  fetchReadingsWithContext(wRows, RunTime, wStrategy, queryError)
    /\ wPc' = "generate"
    /\ UNCHANGED <<wWeeks, wWindow, wRows, wStrategy, wFallbackFailed,
                   wWindowReadings, wCandidate, statVars, spVars, handlerVars, pipeVars, filterVars, outlierVars,
                   minVars, gapVars, raceVars, dispVars>>

WinGenerate ==
    /\ wPc = "generate"
    /\ \E queryError \in BOOLEAN :
           /\ wFallbackFailed' = queryError
           /\ wWindowReadings' =
                  WindowReadings(wRows, RunTime, wWindow, wAllReadings, wStrategy,
                                 queryError)
           /\ wCandidate' =
                  generateScheduleForWindow(wRows, RunTime, wWindow, wAllReadings,
                                            wStrategy, TargetMonday, queryError)
    /\ wPc' = "done"
    /\ UNCHANGED <<wWeeks, wWindow, wRows, wStrategy, wFetchFailed, wAllReadings,
                   statVars, spVars, handlerVars, pipeVars, filterVars, outlierVars,
                   minVars, gapVars, raceVars, dispVars>>

WinNext == WinInsertReading \/ WinDetermineStrategy \/ WinFetchReadings \/ WinGenerate

(***************************************************************************)
(* index.ts: the Deno.serve handler of schedule-weekly-reminders, one      *)
(* invocation, stepping from await to await.                               *)
(***************************************************************************)
NoRun == [status |-> "none"]
NoResponse == [status |-> 0, message |-> "none"]

Users == <<"u1", "u2">>

MorningWindows(user) ==
    << Window("fasting", user, 1, "fasting", <<7, 30>>, <<9, 0>>),
       Window("breakfast", user, 1, "1hr_after_meal", <<10, 0>>, <<11, 0>>) >>

SpreadWindows(user) ==
    << Window("fasting", user, 1, "fasting", <<7, 30>>, <<9, 0>>),
       Window("lunch", user, 1, "1hr_after_meal", <<12, 0>>, <<13, 30>>) >>

\* last Monday's habits: fasting at 08:55, after breakfast at 10:00
MorningRows ==
    << Row(1, 1, 535, "fasting", "organic"),
       Row(2, 1, 535, "fasting", "organic"),
       Row(3, 1, 535, "fasting", "organic"),
       Row(1, 1, 600, "1hr_after_meal", "organic"),
       Row(2, 1, 600, "1hr_after_meal", "organic"),
       Row(3, 1, 600, "1hr_after_meal", "organic") >>

\* a row of the target week left by an earlier run
StaleSchedule ==
    [user_id |-> "u1", measurement_type |-> "fasting",
     scheduled_at |-> ScheduledAt(TargetMonday, 3, 495),
     meal_window_id |-> "fasting", confidence |-> Lit_0_5,
     source |-> "default_window", readings_count |-> 0]

HandlerLocalsInit ==
    /\ hEligibleUsers = <<>>
    /\ hUserWindows = <<>>
    /\ hStrategy = NoStrategy
    /\ hReadings = <<>>
    /\ hFinalSchedules = <<>>
    /\ processedUsers = 0
    /\ totalSchedulesCreated = 0
    /\ hInsertErrors = {}
    /\ hFetchErrors = {}
    /\ hResponse = NoResponse
    /\ hRowsBefore = <<>>

HandlerIdle ==
    /\ hPc = "idle"
    /\ notification_schedule_runs = NoRun
    /\ notification_schedules = <<>>
    /\ user_settings = {}
    /\ user_meal_windows = [u \in {"u1", "u2"} |-> <<>>]
    /\ glucose_readings = [u \in {"u1", "u2"} |-> <<>>]
    /\ scheduled_weeks = [u \in {"u1", "u2"} |-> 0]
    /\ HandlerLocalsInit
    /\ hInvocation = 0

HandlerInit ==
    /\ hPc = "request"
    /\ notification_schedule_runs \in
           {NoRun, [status |-> "completed", users_processed |-> 0,
                    schedules_created |-> 0]}
    /\ notification_schedules \in {<<>>, <<StaleSchedule>>}
    /\ user_settings \in SUBSET {"u1", "u2"}
    /\ \E w1 \in {<<>>, MorningWindows("u1"), SpreadWindows("u1")},
          w2 \in {<<>>, SpreadWindows("u2")} :
           user_meal_windows = [u \in {"u1", "u2"} |-> IF u = "u1" THEN w1 ELSE w2]
    /\ \E r1 \in {<<>>, MorningRows} :
           glucose_readings = [u \in {"u1", "u2"} |-> IF u = "u1" THEN r1 ELSE <<>>]
    /\ \E n1 \in {0, 4} :
           scheduled_weeks = [u \in {"u1", "u2"} |-> IF u = "u1" THEN n1 ELSE 0]
    /\ HandlerLocalsInit
    /\ hInvocation = 1

JsonResponse(status, message) == [status |-> status, message |-> message]

\* validateCronSecret(req)
HandleRequest ==
    /\ hPc = "request"
    /\ \E authorized \in BOOLEAN :
           IF authorized
           THEN /\ hPc' = "checkRun"
                /\ UNCHANGED hResponse
           ELSE /\ hPc' = "returned"
                /\ hResponse' = JsonResponse(401, "Unauthorized")
    /\ UNCHANGED <<dbVars, hEligibleUsers, hUserWindows, hStrategy, hReadings,
                   hFinalSchedules, processedUsers, totalSchedulesCreated,
                   hInsertErrors, hFetchErrors, hInvocation, hRowsBefore, statVars, winVars, spVars, pipeVars, filterVars, outlierVars,
                   minVars, gapVars, raceVars, dispVars>>

\* select the run of the week (the error of the query is not read)
CheckExistingRun ==
    /\ hPc = "checkRun"
    /\ \E selectError \in BOOLEAN :
           IF ~selectError /\ notification_schedule_runs # NoRun
           THEN /\ hPc' = "returned"
                /\ hResponse' = JsonResponse(200, "Week already scheduled")
           ELSE /\ hPc' = "createRun"
                /\ UNCHANGED hResponse
    /\ UNCHANGED <<dbVars, hEligibleUsers, hUserWindows, hStrategy, hReadings,
                   hFinalSchedules, processedUsers, totalSchedulesCreated,
                   hInsertErrors, hFetchErrors, hInvocation, hRowsBefore, statVars, winVars, spVars, pipeVars, filterVars, outlierVars,
                   minVars, gapVars, raceVars, dispVars>>

\* insert the run row; run_week_start_date is unique
CreateRun ==
    /\ hPc = "createRun"
    /\ \E runError \in BOOLEAN :
           IF runError \/ notification_schedule_runs # NoRun
           THEN /\ hPc' = "returned"
                /\ hResponse' = JsonResponse(500, "runError")
                /\ UNCHANGED notification_schedule_runs
           ELSE /\ hPc' = "fetchUsers"
                /\ notification_schedule_runs' = [status |-> "running"]
                /\ UNCHANGED hResponse
    /\ UNCHANGED <<notification_schedules, user_settings, user_meal_windows,
                   glucose_readings, scheduled_weeks, hEligibleUsers, hUserWindows,
                   hStrategy, hReadings, hFinalSchedules, processedUsers,
                   totalSchedulesCreated, hInsertErrors, hFetchErrors, hInvocation, hRowsBefore, statVars, winVars, spVars, pipeVars, filterVars, outlierVars,
                   minVars, gapVars, raceVars, dispVars>>

\* update of the run row (its error is not read)
UpdateRun(updateError, row) ==
    notification_schedule_runs' =
        IF updateError THEN notification_schedule_runs ELSE row

\* select the users with push_notifications_enabled
FetchEligibleUsers ==
    /\ hPc = "fetchUsers"
    /\ \E usersError \in BOOLEAN, updateError \in BOOLEAN :
           LET eligible == SelectSeq(Users, LAMBDA u : u \in user_settings)
           IN  IF usersError
               THEN /\ UpdateRun(updateError, [status |-> "failed"])
                    /\ hPc' = "returned"
                    /\ hResponse' = JsonResponse(500, "usersError")
                    /\ UNCHANGED hEligibleUsers
               ELSE IF eligible = <<>>
               THEN /\ UpdateRun(updateError,
                                 [status |-> "completed", users_processed |-> 0,
                                  schedules_created |-> 0])
                    /\ hPc' = "returned"
                    /\ hResponse' = JsonResponse(200, "No eligible users")
                    /\ UNCHANGED hEligibleUsers
               ELSE /\ hEligibleUsers' = eligible
                    /\ hPc' = "fetchWindows"
                    /\ UNCHANGED <<notification_schedule_runs, hResponse>>
    /\ UNCHANGED <<notification_schedules, user_settings, user_meal_windows,
                   glucose_readings, scheduled_weeks, hUserWindows, hStrategy,
                   hReadings, hFinalSchedules, processedUsers, totalSchedulesCreated,
                   hInsertErrors, hFetchErrors, hInvocation, hRowsBefore, statVars, winVars, spVars, pipeVars, filterVars, outlierVars,
                   minVars, gapVars, raceVars, dispVars>>

\* the next cron call (or manual call) of the function, after the last returned
Invoke ==
    /\ hPc = "returned"
    /\ hInvocation < MaxInvocations
    /\ hInvocation' = hInvocation + 1
    /\ hPc' = "request"
    /\ hEligibleUsers' = <<>>
    /\ hUserWindows' = <<>>
    /\ hStrategy' = NoStrategy
    /\ hReadings' = <<>>
    /\ hFinalSchedules' = <<>>
    /\ processedUsers' = 0
    /\ totalSchedulesCreated' = 0
    /\ hInsertErrors' = {}
    /\ hFetchErrors' = {}
    /\ hResponse' = NoResponse
    /\ hRowsBefore' = <<>>
    /\ UNCHANGED <<dbVars, statVars, winVars, spVars, pipeVars, filterVars, outlierVars,
                   minVars, gapVars, raceVars, dispVars>>

\* the loop head: the next user, or the update of the run after the last
NextUserPc(remaining) == IF remaining = <<>> THEN "completeRun" ELSE "fetchWindows"

\* enforceSpacingByConfidence(candidates, 90)
MinSpacingMinutes == 90

\* the skipped user counted as processed
FetchUserWindows_CountSkipped ==
    /\ hPc = "fetchWindows"
    /\ \E windowsError \in BOOLEAN :
           LET user == Head(hEligibleUsers)
               userWindows == IF windowsError THEN <<>> ELSE user_meal_windows[user]
           IN  IF userWindows = <<>>
               THEN /\ hEligibleUsers' = Tail(hEligibleUsers)
                    /\ hPc' = NextUserPc(Tail(hEligibleUsers))
                    /\ processedUsers' = processedUsers + 1
                    /\ UNCHANGED hUserWindows
               ELSE /\ hUserWindows' = userWindows
                    /\ processedUsers' = processedUsers + 1
                    /\ hPc' = "strategy"
                    /\ UNCHANGED hEligibleUsers
    /\ UNCHANGED <<dbVars, hStrategy, hReadings, hFinalSchedules,
                   totalSchedulesCreated, hInsertErrors, hResponse,
                   hFetchErrors, hInvocation, hRowsBefore, statVars, winVars, spVars, pipeVars, filterVars, outlierVars,
                   minVars, gapVars, raceVars, dispVars>>

\* select the user's meal windows; without windows the user is skipped
FetchUserWindows ==
    /\ hPc = "fetchWindows"
    /\ \E windowsError \in BOOLEAN :
           LET user == Head(hEligibleUsers)
               userWindows == IF windowsError THEN <<>> ELSE user_meal_windows[user]
           IN  IF userWindows = <<>>
               THEN /\ hEligibleUsers' = Tail(hEligibleUsers)
                    /\ hPc' = NextUserPc(Tail(hEligibleUsers))
                    /\ UNCHANGED <<hUserWindows, processedUsers>>
               ELSE /\ hUserWindows' = userWindows
                    /\ processedUsers' = processedUsers + 1
                    /\ hPc' = "strategy"
                    /\ UNCHANGED hEligibleUsers
    /\ UNCHANGED <<dbVars, hStrategy, hReadings, hFinalSchedules,
                   totalSchedulesCreated, hInsertErrors, hResponse,
                   hFetchErrors, hInvocation, hRowsBefore, statVars, winVars, spVars, pipeVars, filterVars, outlierVars,
                   minVars, gapVars, raceVars, dispVars>>

\* countScheduledWeeks (0 on an rpc error) and determineLookbackStrategy
DetermineStrategy ==
    /\ hPc = "strategy"
    /\ \E rpcError \in BOOLEAN :
           LET scheduledWeeks ==
                   IF rpcError THEN 0 ELSE scheduled_weeks[Head(hEligibleUsers)]
           IN  /\ hStrategy' = determineLookbackStrategy(scheduledWeeks)
               /\ hFetchErrors' = IF rpcError
                                  THEN hFetchErrors \cup {Head(hEligibleUsers)}
                                  ELSE hFetchErrors
    /\ hPc' = "fetchReadings"
    /\ UNCHANGED <<dbVars, hEligibleUsers, hUserWindows, hReadings, hFinalSchedules,
                   processedUsers, totalSchedulesCreated, hInsertErrors, hResponse,
                   hInvocation, hRowsBefore, statVars, winVars, spVars, pipeVars, filterVars, outlierVars,
                   minVars, gapVars, raceVars, dispVars>>

FetchReadings ==
    /\ hPc = "fetchReadings"
    /\ \E queryError \in BOOLEAN :
           /\ hReadings' =
                  fetchReadingsWithContext(glucose_readings[Head(hEligibleUsers)],
                                           RunTime, hStrategy, queryError)
           /\ hFetchErrors' =
                  IF queryError /\ (\/ hStrategy.useScheduledWeeks
                                    \/ /\ hStrategy.useHistoricalWeeks
                                       /\ hStrategy.historicalLookbackDays > 0)
                  THEN hFetchErrors \cup {Head(hEligibleUsers)}
                  ELSE hFetchErrors
    /\ hPc' = "generate"
    /\ UNCHANGED <<dbVars, hEligibleUsers, hUserWindows, hStrategy, hFinalSchedules,
                   processedUsers, totalSchedulesCreated, hInsertErrors, hResponse,
                   hInvocation, hRowsBefore, statVars, winVars, spVars, pipeVars, filterVars, outlierVars,
                   minVars, gapVars, raceVars, dispVars>>

\* one candidate per window, then enforceSpacingByConfidence
GenerateSchedules ==
    /\ hPc = "generate"
    /\ \E queryErrors \in [1..Len(hUserWindows) -> BOOLEAN] :
           LET candidates ==
                   [i \in 1..Len(hUserWindows) |->
                       generateScheduleForWindow(
                           glucose_readings[Head(hEligibleUsers)], RunTime,
                           hUserWindows[i], hReadings, hStrategy, TargetMonday,
                           queryErrors[i])]
           IN  hFinalSchedules' =
                   enforceSpacingByConfidence(candidates, MinSpacingMinutes)
    /\ hPc' = "delete"
    /\ UNCHANGED <<dbVars, hEligibleUsers, hUserWindows, hStrategy, hReadings,
                   processedUsers, totalSchedulesCreated, hInsertErrors, hResponse,
                   hFetchErrors, hInvocation, hRowsBefore, statVars, winVars, spVars, pipeVars, filterVars, outlierVars,
                   minVars, gapVars, raceVars, dispVars>>

\* delete the user's rows of the target week (the error is not read)
DeleteExisting ==
    /\ hPc = "delete"
    /\ \E deleteError \in BOOLEAN :
           LET user    == Head(hEligibleUsers)
               weekEnd == TargetMonday + 7 * MinutesPerDay
           IN  /\ notification_schedules' =
                      IF deleteError THEN notification_schedules
                      ELSE SelectSeq(notification_schedules, LAMBDA r :
                               ~(/\ r.user_id = user
                                 /\ r.scheduled_at >= TargetMonday
                                 /\ r.scheduled_at < weekEnd))
               /\ hRowsBefore' =
                      SelectSeq(notification_schedules, LAMBDA r :
                          /\ r.user_id = user
                          /\ r.scheduled_at >= TargetMonday
                          /\ r.scheduled_at < weekEnd)
    /\ IF hFinalSchedules # <<>>
       THEN /\ hPc' = "insert"
            /\ UNCHANGED hEligibleUsers
       ELSE /\ hEligibleUsers' = Tail(hEligibleUsers)
            /\ hPc' = NextUserPc(Tail(hEligibleUsers))
    /\ UNCHANGED <<notification_schedule_runs, user_settings, user_meal_windows,
                   glucose_readings, scheduled_weeks, hUserWindows, hStrategy,
                   hReadings, hFinalSchedules, processedUsers, totalSchedulesCreated,
                   hInsertErrors, hResponse, hFetchErrors, hInvocation, statVars, winVars, spVars, pipeVars, filterVars, outlierVars,
                   minVars, gapVars, raceVars, dispVars>>

DbPayload(finalSchedules) ==
    [i \in 1..Len(finalSchedules) |->
        [user_id          |-> finalSchedules[i].user_id,
         measurement_type |-> finalSchedules[i].measurement_type,
         scheduled_at     |-> finalSchedules[i].scheduled_at,
         meal_window_id   |-> finalSchedules[i].meal_window_id,
         confidence       |-> finalSchedules[i].confidence,
         source           |-> finalSchedules[i].source,
         readings_count   |-> finalSchedules[i].readings_count]]

\* notification_schedules_user_type_time_idx: unique (user_id,
\* measurement_type, scheduled_at)
SameScheduleKey(a, b) ==
    /\ a.user_id = b.user_id
    /\ a.measurement_type = b.measurement_type
    /\ a.scheduled_at = b.scheduled_at

UniqueViolation(rows, payload) ==
    \/ \E i \in 1..Len(payload), k \in 1..Len(rows) : SameScheduleKey(payload[i], rows[k])
    \/ \E i, j \in 1..Len(payload) : i # j /\ SameScheduleKey(payload[i], payload[j])

\* the insert error thrown: the run is marked failed and the loop left
InsertSchedules_Fatal ==
    /\ hPc = "insert"
    /\ \E insertError \in BOOLEAN :
           IF \/ insertError
              \/ UniqueViolation(notification_schedules, DbPayload(hFinalSchedules))
           THEN /\ hInsertErrors' = hInsertErrors \cup {Head(hEligibleUsers)}
                /\ notification_schedule_runs' = [status |-> "failed"]
                /\ hPc' = "returned"
                /\ hResponse' = JsonResponse(500, "insertError")
                /\ UNCHANGED <<notification_schedules, totalSchedulesCreated,
                               hEligibleUsers>>
           ELSE /\ notification_schedules' =
                       notification_schedules \o DbPayload(hFinalSchedules)
                /\ totalSchedulesCreated' =
                       totalSchedulesCreated + Len(hFinalSchedules)
                /\ hEligibleUsers' = Tail(hEligibleUsers)
                /\ hPc' = NextUserPc(Tail(hEligibleUsers))
                /\ UNCHANGED <<hInsertErrors, notification_schedule_runs, hResponse>>
    /\ UNCHANGED <<user_settings, user_meal_windows, glucose_readings,
                   scheduled_weeks, hUserWindows, hStrategy, hReadings,
                   hFinalSchedules, processedUsers, hFetchErrors, hInvocation, hRowsBefore,
                   statVars, winVars, spVars, pipeVars, filterVars, outlierVars,
                   minVars, gapVars, raceVars, dispVars>>

\* insert the payload, all rows or none; on an error (of the query, or of the
\* unique index) log it and go on with the next user
InsertSchedules ==
    /\ hPc = "insert"
    /\ \E insertError \in BOOLEAN :
           IF \/ insertError
              \/ UniqueViolation(notification_schedules, DbPayload(hFinalSchedules))
           THEN /\ hInsertErrors' = hInsertErrors \cup {Head(hEligibleUsers)}
                /\ UNCHANGED <<notification_schedules, totalSchedulesCreated>>
           ELSE /\ notification_schedules' =
                       notification_schedules \o DbPayload(hFinalSchedules)
                /\ totalSchedulesCreated' =
                       totalSchedulesCreated + Len(hFinalSchedules)
                /\ UNCHANGED hInsertErrors
    /\ hEligibleUsers' = Tail(hEligibleUsers)
    /\ hPc' = NextUserPc(Tail(hEligibleUsers))
    /\ UNCHANGED <<notification_schedule_runs, user_settings, user_meal_windows,
                   glucose_readings, scheduled_weeks, hUserWindows, hStrategy,
                   hReadings, hFinalSchedules, processedUsers, hResponse,
                   hFetchErrors, hInvocation, hRowsBefore, statVars, winVars, spVars, pipeVars, filterVars, outlierVars,
                   minVars, gapVars, raceVars, dispVars>>

CompleteRun ==
    /\ hPc = "completeRun"
    /\ \E updateError \in BOOLEAN :
           UpdateRun(updateError,
                     [status |-> "completed", users_processed |-> processedUsers,
                      schedules_created |-> totalSchedulesCreated])
    /\ hPc' = "returned"
    /\ hResponse' = JsonResponse(200, "Successfully scheduled reminders")
    /\ UNCHANGED <<notification_schedules, user_settings, user_meal_windows,
                   glucose_readings, scheduled_weeks, hEligibleUsers, hUserWindows,
                   hStrategy, hReadings, hFinalSchedules, processedUsers,
                   totalSchedulesCreated, hInsertErrors, hFetchErrors, hInvocation, hRowsBefore, statVars, winVars, spVars, pipeVars, filterVars, outlierVars,
                   minVars, gapVars, raceVars, dispVars>>

(***************************************************************************)
(* The per-user pipeline of the handler (index.ts 193-222) executed more   *)
(* than once on the same stored data and the same target Monday            *)
(* (SpecPipeline); the clock moves between the executions.                 *)
(***************************************************************************)
UserPipeline(rows, windows, scheduledWeeks, now, targetMonday) ==
    LET strategy == determineLookbackStrategy(scheduledWeeks)
        readings == fetchReadingsWithContext(rows, now, strategy, FALSE)
        candidates ==
            [i \in 1..Len(windows) |->
                generateScheduleForWindow(rows, now, windows[i], readings, strategy,
                                          targetMonday, FALSE)]
    IN  enforceSpacingByConfidence(candidates, MinSpacingMinutes)

EveningWindows(user) ==
    << Window("dinner", user, 3, "1hr_after_meal", <<20, 30>>, <<21, 30>>) >>

\* the same fasting window on Monday and on Tuesday
WeekdayWindows(user) ==
    << Window("fasting-mon", user, 1, "fasting", <<7, 30>>, <<9, 0>>),
       Window("fasting-tue", user, 2, "fasting", <<7, 30>>, <<9, 0>>) >>

\* Wednesday 21:00 after dinner, one, two and nine weeks before the target week
EveningRows ==
    << Row(1, 3, 1260, "1hr_after_meal", "organic"),
       Row(2, 3, 1260, "1hr_after_meal", "organic"),
       Row(9, 3, 1260, "1hr_after_meal", "organic") >>

\* a late supper on Sunday, measured a few minutes before midnight
LateWindows(user) ==
    << Window("supper", user, 0, "1hr_after_meal", <<22, 0>>, <<23, 58>>) >>

LateRows ==
    << Row(2, 0, 1437, "1hr_after_meal", "organic"),
       Row(3, 0, 1437, "1hr_after_meal", "organic"),
       Row(4, 0, 1437, "1hr_after_meal", "organic") >>

\* the clock moves by two hours
TickMinutes == 2 * 60

PipeIdle ==
    /\ pNow = RunTime
    /\ pWindows = <<>>
    /\ pRows = <<>>
    /\ pWeeks = 0
    /\ pRuns = <<>>

PipeInit ==
    /\ pNow = RunTime
    /\ pWindows \in {MorningWindows("u1"), SpreadWindows("u1"), EveningWindows("u1"),
                     MorningWindows("u1") \o EveningWindows("u1"),
                     WeekdayWindows("u1"), LateWindows("u1")}
    /\ pRows \in {<<>>, MorningRows, EveningRows, MorningRows \o EveningRows,
                  LateRows}
    /\ pWeeks \in WindowWeeks
    /\ pRuns = <<>>

PipeExecute ==
    /\ Len(pRuns) < MaxExecutions
    /\ pRuns' = Append(pRuns, UserPipeline(pRows, pWindows, pWeeks, pNow, TargetMonday))
    /\ UNCHANGED <<pNow, pWindows, pRows, pWeeks, statVars, winVars, spVars,
                   handlerVars, filterVars, outlierVars, minVars, gapVars,
                   raceVars, dispVars>>

PipeTick ==
    /\ pNow < RunTime + MaxTicks * TickMinutes
    /\ pNow' = pNow + TickMinutes
    /\ UNCHANGED <<pWindows, pRows, pWeeks, pRuns, statVars, winVars, spVars,
                   handlerVars, filterVars, outlierVars, minVars, gapVars,
                   raceVars, dispVars>>

PipeNext == PipeExecute \/ PipeTick

(***************************************************************************)
(* filterReadingsByMealWindows applied to bounded lists of readings and    *)
(* meal windows (SpecFilter), as the tests of filtering.test.ts do.        *)
(***************************************************************************)
FilterReading(dayOfWeek, minute, type) ==
    [day_of_week |-> dayOfWeek, minute_of_day |-> minute, measurement_type |-> type]

FilterReadings ==
    { FilterReading(1, 449, "fasting"), FilterReading(1, 450, "fasting"),
      FilterReading(1, 540, "fasting"), FilterReading(1, 541, "fasting"),
      FilterReading(2, 480, "fasting"), FilterReading(1, 480, "1hr_after_meal") }

FilterWindows ==
    { Window("f1", "u1", 1, "fasting", <<7, 30>>, <<9, 0>>),
      Window("f2", "u1", 1, "fasting", <<9, 0>>, <<9, 30>>),
      Window("f3", "u1", 2, "1hr_after_meal", <<7, 30>>, <<9, 0>>) }

NoResult == <<"none">>

FilIdle ==
    /\ fPc = "idle"
    /\ fReadings = <<>>
    /\ fWindows = <<>>
    /\ fFiltered = NoResult

FilInit ==
    /\ fPc = "build"
    /\ fReadings = <<>>
    /\ fWindows = <<>>
    /\ fFiltered = NoResult

FilAddReading ==
    /\ fPc = "build"
    /\ Len(fReadings) < MaxFilterReadings
    /\ \E reading \in FilterReadings : fReadings' = Append(fReadings, reading)
    /\ UNCHANGED <<fPc, fWindows, fFiltered, statVars, winVars, spVars, handlerVars,
                   pipeVars, outlierVars, minVars, gapVars, raceVars, dispVars>>

FilAddWindow ==
    /\ fPc = "build"
    /\ Len(fWindows) < MaxFilterWindows
    /\ \E window \in FilterWindows : fWindows' = Append(fWindows, window)
    /\ UNCHANGED <<fPc, fReadings, fFiltered, statVars, winVars, spVars, handlerVars,
                   pipeVars, outlierVars, minVars, gapVars, raceVars, dispVars>>

FilApply ==
    /\ fPc = "build"
    /\ fFiltered' = filterReadingsByMealWindows(fReadings, fWindows)
    /\ fPc' = "done"
    /\ UNCHANGED <<fReadings, fWindows, statVars, winVars, spVars, handlerVars,
                   pipeVars, outlierVars, minVars, gapVars, raceVars, dispVars>>

FilNext == FilAddReading \/ FilAddWindow \/ FilApply

(***************************************************************************)
(* The two outlier filters applied to the same bounded lists of minute     *)
(* values (SpecOutliers).                                                  *)
(***************************************************************************)
OutlierMinutes == {475, 480, 485, 1380}
OutlierThresholds == {1, 2}

\* the minute values of the example of the documentation
OutlierExample == <<475, 480, 485, 490, 478, 482, 1380>>

\* the values as readings of one window, all of weight 1.0
AsReadings(values) ==
    [i \in 1..Len(values) |->
        [measurement_type |-> "fasting", day_of_week |-> 1, minute_of_day |-> values[i],
         data_quality |-> "scheduled_week", weight |-> Lit_1_0]]

MinutesOf(readings) == [i \in 1..Len(readings) |-> readings[i].minute_of_day]

OutIdle ==
    /\ oPc = "idle"
    /\ oValues = <<>>
    /\ oThreshold = 2
    /\ oKept = NoResult
    /\ oKeptByWeight = NoResult

OutInit ==
    /\ oPc = "build"
    /\ oValues \in {<<>>, OutlierExample}
    /\ oThreshold \in OutlierThresholds
    /\ oKept = NoResult
    /\ oKeptByWeight = NoResult

OutAddValue ==
    /\ oPc = "build"
    /\ Len(oValues) < MaxOutlierValues
    /\ \E m \in OutlierMinutes : oValues' = Append(oValues, m)
    /\ UNCHANGED <<oPc, oThreshold, oKept, oKeptByWeight, statVars, winVars, spVars,
                   handlerVars, pipeVars, filterVars, minVars, gapVars, raceVars,
                   dispVars>>

OutApply ==
    /\ oPc = "build"
    /\ oKept' = detectStatisticalOutliers(oValues, oThreshold)
    /\ oKeptByWeight' = filterOutliersByWeight(AsReadings(oValues))
    /\ oPc' = "done"
    /\ UNCHANGED <<oValues, oThreshold, statVars, winVars, spVars, handlerVars,
                   pipeVars, filterVars, minVars, gapVars, raceVars, dispVars>>

OutNext == OutAddValue \/ OutApply

(***************************************************************************)
(* enforceMinimumSpacing applied to bounded lists of schedules of two      *)
(* days (SpecMinSpacing), as the tests of filtering.test.ts do.            *)
(***************************************************************************)
MinSchedule(day, minute, frequency) ==
    [user_id |-> "test-user", measurement_type |-> "fasting",
     scheduled_at |-> day * MinutesPerDay + minute, frequency |-> frequency]

\* 07:30, 08:00 and 09:00 of one day and 08:00 of the next
MinScheduleTimes == {<<0, 450>>, <<0, 480>>, <<0, 540>>, <<1, 480>>}
MinFrequencies == {0, 3, 7}

MinIdle ==
    /\ mPc = "idle"
    /\ mSchedules = <<>>
    /\ mKept = NoResult

MinInit ==
    /\ mPc = "build"
    /\ mSchedules = <<>>
    /\ mKept = NoResult

MinAddSchedule ==
    /\ mPc = "build"
    /\ Len(mSchedules) < MaxMinSchedules
    /\ \E t \in MinScheduleTimes, frequency \in MinFrequencies :
           mSchedules' = Append(mSchedules, MinSchedule(t[1], t[2], frequency))
    /\ UNCHANGED <<mPc, mKept, statVars, winVars, spVars, handlerVars, pipeVars,
                   filterVars, outlierVars, gapVars, raceVars, dispVars>>

MinEnforce ==
    /\ mPc = "build"
    /\ mKept' = enforceMinimumSpacing(mSchedules, MinSpacingMinutes)
    /\ mPc' = "done"
    /\ UNCHANGED <<mSchedules, statVars, winVars, spVars, handlerVars, pipeVars,
                   filterVars, outlierVars, gapVars, raceVars, dispVars>>

MinNext == MinAddSchedule \/ MinEnforce

(***************************************************************************)
(* fillMissingMealWindowReminders applied to bounded lists of schedules    *)
(* and meal windows (SpecGapFill), as the tests of filtering.test.ts do.   *)
(***************************************************************************)
\* new Date('2026-01-05T00:00:00.000Z'), a Monday 00:00 UTC
GapMonday == 15 * 7 * MinutesPerDay

GapWindows ==
    { Window("meal1", "test-user", 1, "1hr_after_meal", <<10, 0>>, <<11, 0>>),
      Window("meal2", "test-user", 1, "1hr_after_meal", <<12, 0>>, <<13, 30>>),
      Window("sunday", "test-user", 0, "fasting", <<7, 30>>, <<7, 40>>),
      Window("other", "other-user", 1, "fasting", <<7, 30>>, <<9, 0>>) }

GapSchedule(user, type, day, minute) ==
    [user_id |-> user, measurement_type |-> type,
     scheduled_at |-> GapMonday + day * MinutesPerDay + minute,
     minute_of_day |-> minute]

\* Monday 10:30 after a meal and Sunday 07:35 fasting
GapSchedules ==
    { GapSchedule("test-user", "1hr_after_meal", 0, 630),
      GapSchedule("test-user", "fasting", 6, 455) }

BothTypes == {"fasting", "1hr_after_meal"}

GapTypes ==
    { [u \in {} |-> {}],
      [u \in {"test-user"} |-> {"fasting"}],
      [u \in {"test-user"} |-> BothTypes],
      [u \in {"test-user", "other-user"} |-> BothTypes] }

GapIdle ==
    /\ gPc = "idle"
    /\ gSchedules = <<>>
    /\ gWindows = <<>>
    /\ gTypes = <<>>
    /\ gFillers = NoResult

GapInit ==
    /\ gPc = "build"
    /\ gSchedules = <<>>
    /\ gWindows = <<>>
    /\ gTypes \in GapTypes
    /\ gFillers = NoResult

GapAddSchedule ==
    /\ gPc = "build"
    /\ Len(gSchedules) < MaxGapSchedules
    /\ \E schedule \in GapSchedules : gSchedules' = Append(gSchedules, schedule)
    /\ UNCHANGED <<gPc, gWindows, gTypes, gFillers, statVars, winVars, spVars,
                   handlerVars, pipeVars, filterVars, outlierVars, minVars,
                   raceVars, dispVars>>

GapAddWindow ==
    /\ gPc = "build"
    /\ Len(gWindows) < MaxGapWindows
    /\ \E window \in GapWindows :
           /\ \A i \in 1..Len(gWindows) : gWindows[i] # window
           /\ gWindows' = Append(gWindows, window)
    /\ UNCHANGED <<gPc, gSchedules, gTypes, gFillers, statVars, winVars, spVars,
                   handlerVars, pipeVars, filterVars, outlierVars, minVars,
                   raceVars, dispVars>>

GapFill ==
    /\ gPc = "build"
    /\ gFillers' = fillMissingMealWindowReminders(gSchedules, gWindows, gTypes, GapMonday)
    /\ gPc' = "done"
    /\ UNCHANGED <<gSchedules, gWindows, gTypes, statVars, winVars, spVars,
                   handlerVars, pipeVars, filterVars, outlierVars, minVars,
                   raceVars, dispVars>>

GapNext == GapAddSchedule \/ GapAddWindow \/ GapFill

(***************************************************************************)
(* index.ts: invocations of the handler that run concurrently for the same *)
(* target week (SpecRace).  Each steps from await to await; the reads of   *)
(* one user (windows, weeks, readings) are one step, and the store has one *)
(* user.  A Response of status 500 carries the name of the error thrown.   *)
(***************************************************************************)
Invocations == 1..MaxConcurrent

RaceIdle ==
    /\ rPc = [p \in Invocations |-> "idle"]
    /\ rRun = NoRun
    /\ rRunsCreated = 0
    /\ rSchedules = {}
    /\ rWrote = [p \in Invocations |-> FALSE]
    /\ rResponse = [p \in Invocations |-> NoResponse]

RaceInit ==
    /\ rPc = [p \in Invocations |-> "request"]
    /\ rRun = NoRun
    /\ rRunsCreated = 0
    /\ rSchedules \in {{}, {[user_id |-> "u1", written_by |-> 0]}}
    /\ rWrote = [p \in Invocations |-> FALSE]
    /\ rResponse = [p \in Invocations |-> NoResponse]

RaceGoto(p, pc) == rPc' = [rPc EXCEPT ![p] = pc]

RaceReturn(p, response) ==
    /\ rPc' = [rPc EXCEPT ![p] = "returned"]
    /\ rResponse' = [rResponse EXCEPT ![p] = response]

RaceOthersUnchanged ==
    UNCHANGED <<statVars, winVars, spVars, handlerVars, pipeVars, filterVars,
                outlierVars, minVars, gapVars, dispVars>>

\* validateCronSecret
RaceRequest(p) ==
    /\ rPc[p] = "request"
    /\ \E authorized \in BOOLEAN :
           IF authorized
           THEN RaceGoto(p, "checkRun") /\ UNCHANGED rResponse
           ELSE RaceReturn(p, JsonResponse(401, "Unauthorized"))
    /\ UNCHANGED <<rRun, rRunsCreated, rSchedules, rWrote>>
    /\ RaceOthersUnchanged

\* select the run of the week (the error of the query is not read)
RaceCheckExistingRun(p) ==
    /\ rPc[p] = "checkRun"
    /\ \E selectError \in BOOLEAN :
           IF ~selectError /\ rRun # NoRun
           THEN RaceReturn(p, JsonResponse(200, "Week already scheduled"))
           ELSE RaceGoto(p, "createRun") /\ UNCHANGED rResponse
    /\ UNCHANGED <<rRun, rRunsCreated, rSchedules, rWrote>>
    /\ RaceOthersUnchanged

\* the insert without the unique constraint on run_week_start_date
RaceCreateRun_NoUnique(p) ==
    /\ rPc[p] = "createRun"
    /\ \E runError \in BOOLEAN :
           IF runError
           THEN /\ RaceReturn(p, JsonResponse(500, "runError"))
                /\ UNCHANGED <<rRun, rRunsCreated>>
           ELSE /\ RaceGoto(p, "fetchUsers")
                /\ rRun' = [status |-> "running"]
                /\ rRunsCreated' = rRunsCreated + 1
                /\ UNCHANGED rResponse
    /\ UNCHANGED <<rSchedules, rWrote>>
    /\ RaceOthersUnchanged

\* insert the run row; run_week_start_date is unique, and if (runError) throw
RaceCreateRun(p) ==
    /\ rPc[p] = "createRun"
    /\ \E runError \in BOOLEAN :
           IF rRun # NoRun
           THEN /\ RaceReturn(p, JsonResponse(500, "duplicate key"))
                /\ UNCHANGED <<rRun, rRunsCreated>>
           ELSE IF runError
           THEN /\ RaceReturn(p, JsonResponse(500, "runError"))
                /\ UNCHANGED <<rRun, rRunsCreated>>
           ELSE /\ RaceGoto(p, "fetchUsers")
                /\ rRun' = [status |-> "running"]
                /\ rRunsCreated' = rRunsCreated + 1
                /\ UNCHANGED rResponse
    /\ UNCHANGED <<rSchedules, rWrote>>
    /\ RaceOthersUnchanged

\* update of the run row (its error is not read)
RaceUpdateRun(updateError, row) ==
    rRun' = IF updateError THEN rRun ELSE row

\* select the eligible users; none: the run is completed at once
RaceFetchEligibleUsers(p) ==
    /\ rPc[p] = "fetchUsers"
    /\ \E usersError \in BOOLEAN, updateError \in BOOLEAN, eligible \in BOOLEAN :
           IF usersError
           THEN /\ RaceUpdateRun(updateError, [status |-> "failed"])
                /\ RaceReturn(p, JsonResponse(500, "usersError"))
           ELSE IF ~eligible
           THEN /\ RaceUpdateRun(updateError, [status |-> "completed"])
                /\ RaceReturn(p, JsonResponse(200, "No eligible users"))
           ELSE /\ RaceGoto(p, "user")
                /\ UNCHANGED <<rRun, rResponse>>
    /\ UNCHANGED <<rRunsCreated, rSchedules, rWrote>>
    /\ RaceOthersUnchanged

\* the reads of the user: without windows the user is skipped
RaceReadUser(p) ==
    /\ rPc[p] = "user"
    /\ \E hasWindows \in BOOLEAN :
           IF hasWindows THEN RaceGoto(p, "delete") ELSE RaceGoto(p, "complete")
    /\ UNCHANGED <<rRun, rRunsCreated, rSchedules, rWrote, rResponse>>
    /\ RaceOthersUnchanged

\* delete the user's rows of the week (the error is not read)
RaceDeleteExisting(p) ==
    /\ rPc[p] = "delete"
    /\ \E deleteError \in BOOLEAN :
           rSchedules' = IF deleteError THEN rSchedules ELSE {}
    /\ rWrote' = [rWrote EXCEPT ![p] = TRUE]
    /\ RaceGoto(p, "insert")
    /\ UNCHANGED <<rRun, rRunsCreated, rResponse>>
    /\ RaceOthersUnchanged

\* insert the user's final schedules (an error is logged)
RaceInsertSchedules(p) ==
    /\ rPc[p] = "insert"
    /\ \E insertError \in BOOLEAN :
           rSchedules' =
               IF insertError THEN rSchedules
               ELSE rSchedules \cup {[user_id |-> "u1", written_by |-> p]}
    /\ rWrote' = [rWrote EXCEPT ![p] = TRUE]
    /\ RaceGoto(p, "complete")
    /\ UNCHANGED <<rRun, rRunsCreated, rResponse>>
    /\ RaceOthersUnchanged

RaceCompleteRun(p) ==
    /\ rPc[p] = "complete"
    /\ \E updateError \in BOOLEAN :
           RaceUpdateRun(updateError, [status |-> "completed"])
    /\ RaceReturn(p, JsonResponse(200, "Successfully scheduled reminders"))
    /\ UNCHANGED <<rRunsCreated, rSchedules, rWrote>>
    /\ RaceOthersUnchanged

RaceNext ==
    \E p \in Invocations :
        \/ RaceRequest(p)
        \/ RaceCheckExistingRun(p)
        \/ RaceCreateRun(p)
        \/ RaceFetchEligibleUsers(p)
        \/ RaceReadUser(p)
        \/ RaceDeleteExisting(p)
        \/ RaceInsertSchedules(p)
        \/ RaceCompleteRun(p)

(***************************************************************************)
(* dispatch-due-reminders/index.ts: runs of the dispatcher (SpecDispatch). *)
(* pg_cron posts to the function every five minutes; each request is an    *)
(* independent run against the same notification_schedules table, and     *)
(* every await of the handler is a point where another run may take a step.*)
(***************************************************************************)
Dispatchers == 1..MaxDispatchers

\* the rows of notification_schedules: id and scheduled_at (minutes)
DispatchRows == {"s1", "s2"}
DispatchScheduledAt == [s1 |-> 0, s2 |-> 5]

\* pg_cron: every 5 minutes
CronMinutes == 5
\* graceStart.setMinutes(getMinutes() - 15)
GraceMinutes == 15

\* a select without ORDER BY returns the rows in any order
OrdersOf(S) ==
    {q \in [1..Cardinality(S) -> S] : \A i, j \in 1..Cardinality(S) : q[i] = q[j] => i = j}

\* .eq('status', 'scheduled').lte('scheduled_at', now).gte('scheduled_at', graceStart)
DueSchedules(now) ==
    {s \in DispatchRows :
        /\ dStatus[s] = "scheduled"
        /\ DispatchScheduledAt[s] <= now
        /\ DispatchScheduledAt[s] >= now - GraceMinutes}

DispatchResult(schedule, status) == [schedule_id |-> schedule, status |-> status]

DispIdle ==
    /\ dNow = 0
    /\ dStatus = [s \in DispatchRows |-> "scheduled"]
    /\ dPushes = [s \in DispatchRows |-> 0]
    /\ dPc = [p \in Dispatchers |-> "idle"]
    /\ dQueue = [p \in Dispatchers |-> <<>>]
    /\ dResult = [p \in Dispatchers |-> NoResult]
    /\ dResponse = [p \in Dispatchers |-> 0]

DispInit == DispIdle

DispOthersUnchanged ==
    UNCHANGED <<statVars, winVars, spVars, handlerVars, pipeVars, filterVars,
                outlierVars, minVars, gapVars, raceVars>>

\* the request arrives: validateCronSecret and the OneSignal configuration
DispRequest(p) ==
    /\ dPc[p] = "idle"
    /\ \E authorized \in BOOLEAN, configured \in BOOLEAN :
           IF ~authorized
           THEN /\ dResponse' = [dResponse EXCEPT ![p] = 401]
                /\ UNCHANGED dPc
           ELSE IF ~configured
           THEN /\ dResponse' = [dResponse EXCEPT ![p] = 500]
                /\ UNCHANGED dPc
           ELSE /\ dResponse' = [dResponse EXCEPT ![p] = 0]
                /\ dPc' = [dPc EXCEPT ![p] = "fetch"]
    /\ UNCHANGED <<dNow, dStatus, dPushes, dQueue, dResult>>
    /\ DispOthersUnchanged

\* fetch due schedules (and the users' settings)
DispFetch(p) ==
    /\ dPc[p] = "fetch"
    /\ \E fetchError \in BOOLEAN, settingsError \in BOOLEAN :
           IF fetchError
           THEN /\ dResponse' = [dResponse EXCEPT ![p] = 500]
                /\ dPc' = [dPc EXCEPT ![p] = "idle"]
                /\ UNCHANGED dQueue
           ELSE IF DueSchedules(dNow) = {}
           THEN /\ dResponse' = [dResponse EXCEPT ![p] = 200]
                /\ dPc' = [dPc EXCEPT ![p] = "idle"]
                /\ UNCHANGED dQueue
           ELSE IF settingsError
           THEN /\ dResponse' = [dResponse EXCEPT ![p] = 500]
                /\ dPc' = [dPc EXCEPT ![p] = "idle"]
                /\ UNCHANGED dQueue
           ELSE \E schedules \in OrdersOf(DueSchedules(dNow)) :
                    /\ dQueue' = [dQueue EXCEPT ![p] = schedules]
                    /\ dPc' = [dPc EXCEPT ![p] = "process"]
                    /\ UNCHANGED dResponse
    /\ UNCHANGED <<dNow, dStatus, dPushes, dResult>>
    /\ DispOthersUnchanged

\* processSchedule: cancelled when a reading exists, else the push is sent
DispProcessSchedule(p) ==
    /\ dPc[p] = "process"
    /\ LET schedule == Head(dQueue[p])
       IN  \E hasReading \in BOOLEAN, sendFails \in BOOLEAN :
               IF hasReading
               THEN /\ dResult' = [dResult EXCEPT ![p] = DispatchResult(schedule, "cancelled")]
                    /\ UNCHANGED dPushes
               ELSE IF sendFails
               THEN /\ dResult' = [dResult EXCEPT ![p] = DispatchResult(schedule, "failed")]
                    /\ UNCHANGED dPushes
               ELSE /\ dResult' = [dResult EXCEPT ![p] = DispatchResult(schedule, "sent")]
                    /\ dPushes' = [dPushes EXCEPT ![schedule] = @ + 1]
    /\ dPc' = [dPc EXCEPT ![p] = "update"]
    /\ UNCHANGED <<dNow, dStatus, dQueue, dResponse>>
    /\ DispOthersUnchanged

\* update({status: result.status, ...}).eq('id', result.schedule_id), then
\* the next schedule of the loop or the summary
DispUpdateStatus(p) ==
    /\ dPc[p] = "update"
    /\ dStatus' = [dStatus EXCEPT ![dResult[p].schedule_id] = dResult[p].status]
    /\ dQueue' = [dQueue EXCEPT ![p] = Tail(@)]
    /\ dResult' = [dResult EXCEPT ![p] = NoResult]
    /\ IF Len(dQueue[p]) > 1
       THEN /\ dPc' = [dPc EXCEPT ![p] = "process"]
            /\ UNCHANGED dResponse
       ELSE /\ dPc' = [dPc EXCEPT ![p] = "idle"]
            /\ dResponse' = [dResponse EXCEPT ![p] = 200]
    /\ UNCHANGED <<dNow, dPushes>>
    /\ DispOthersUnchanged

\* time passes
DispTick ==
    /\ dNow < MaxDispatchTicks * CronMinutes
    /\ dNow' = dNow + CronMinutes
    /\ UNCHANGED <<dStatus, dPushes, dPc, dQueue, dResult, dResponse>>
    /\ DispOthersUnchanged

DispNext ==
    \/ DispTick
    \/ \E p \in Dispatchers :
           \/ DispRequest(p)
           \/ DispFetch(p)
           \/ DispProcessSchedule(p)
           \/ DispUpdateStatus(p)

(***************************************************************************)
(* enforceSpacingByConfidence applied to bounded candidate lists           *)
(* (SpecSpacing), as the 'Integration - Enforce Spacing' test does.        *)
(***************************************************************************)
\* 08:00, 08:30, 09:30 and 10:00 of the target Monday
SpacingMinutes == {480, 510, 570, 600}
SpacingConfidences == {Lit_0_5, FDec(8, 10), FDec(9, 10)}
SpacingChoices == {30, 90}

SpIdle ==
    /\ spPc = "idle"
    /\ spCandidates = <<>>
    /\ spMinSpacing = 90
    /\ spFinal = <<>>

SpInit ==
    /\ spPc = "build"
    /\ spCandidates = <<>>
    /\ spMinSpacing \in SpacingChoices
    /\ spFinal = <<>>

SpAddCandidate ==
    /\ spPc = "build"
    /\ Len(spCandidates) < MaxCandidates
    /\ \E minute \in SpacingMinutes, confidence \in SpacingConfidences :
           spCandidates' =
               Append(spCandidates,
                      [meal_window_id |-> Len(spCandidates) + 1,
                       scheduled_at   |-> ScheduledAt(TargetMonday, 1, minute),
                       confidence     |-> confidence])
    /\ UNCHANGED <<spPc, spMinSpacing, spFinal, statVars, winVars, handlerVars, pipeVars, filterVars, outlierVars,
                   minVars, gapVars, raceVars, dispVars>>

SpEnforce ==
    /\ spPc = "build"
    /\ spFinal' = enforceSpacingByConfidence(spCandidates, spMinSpacing)
    /\ spPc' = "done"
    /\ UNCHANGED <<spCandidates, spMinSpacing, statVars, winVars, handlerVars, pipeVars, filterVars, outlierVars,
                   minVars, gapVars, raceVars, dispVars>>

SpNext == SpAddCandidate \/ SpEnforce

(***************************************************************************)
(* The statistics functions applied to bounded inputs                      *)
(***************************************************************************)
StatMinutes == {420, 480, 540}
Qualities == {"scheduled_week", "historical"}

\* the weight the fetchers give a reading: 1.0 to a scheduled_week reading,
\* strategy.historicalWeight to a historical one, 0.5 to one the adaptive
\* fallback adds (mature mode)
WeightOf(quality, strategy) ==
    IF quality = "scheduled_week" THEN Lit_1_0
    ELSE IF strategy.mode = "mature" THEN Lit_0_5
    ELSE strategy.historicalWeight

StatReading(minute, quality, strategy) ==
    [measurement_type |-> "fasting", day_of_week |-> 1, minute_of_day |-> minute,
     data_quality |-> quality, weight |-> WeightOf(quality, strategy)]

\* a list of s scheduled_week readings followed by h historical ones
MakeReadings(s, h, strategy) ==
    [i \in 1..(s + h) |->
        IF i <= s THEN StatReading(480 + 60 * (i % 2), "scheduled_week", strategy)
        ELSE StatReading(420 + 60 * (i % 3), "historical", strategy)]

OneMoreScheduled(readings, strategy) ==
    Append(readings, StatReading(480, "scheduled_week", strategy))

StatIdle ==
    /\ sWeeks = 0
    /\ sStrategy = NoStrategy
    /\ sReadings = <<>>
    /\ sMedian = 0
    /\ sConfidence = FZero
    /\ sConfidenceMore = FZero

StatInit ==
    /\ sWeeks \in 0..MaxWeeks
    /\ sStrategy = NoStrategy
    /\ sReadings = <<>>
    /\ sMedian = 0
    /\ sConfidence = FZero
    /\ sConfidenceMore = FZero

StatApply(readings, strategy) ==
    /\ sReadings' = readings
    /\ sMedian' = calculateWeightedMedian(readings)
    /\ sConfidence' = calculateConfidence(readings, strategy)
    /\ sConfidenceMore' =
           calculateConfidence(OneMoreScheduled(readings, strategy), strategy)

\* the strategy is determined and the functions are applied to the empty list
StatDetermineStrategy ==
    /\ sStrategy.mode = "none"
    /\ sStrategy' = determineLookbackStrategy(sWeeks)
    /\ StatApply(<<>>, sStrategy')
    /\ UNCHANGED <<sWeeks, winVars, spVars, handlerVars, pipeVars, filterVars, outlierVars,
                   minVars, gapVars, raceVars, dispVars>>

\* the functions applied to the list with one more reading
StatAddReading ==
    /\ sStrategy.mode # "none"
    /\ Len(sReadings) < MaxStatReadings
    /\ \E minute \in StatMinutes, quality \in Qualities :
           StatApply(Append(sReadings, StatReading(minute, quality, sStrategy)), sStrategy)
    /\ UNCHANGED <<sWeeks, sStrategy, winVars, spVars, handlerVars, pipeVars, filterVars, outlierVars,
                   minVars, gapVars, raceVars, dispVars>>

\* the functions applied to a list given by its counts
StatScoreCounts ==
    /\ sStrategy.mode # "none"
    /\ sReadings = <<>>
    /\ \E s \in 0..MaxPerQuality, h \in 0..MaxPerQuality :
           StatApply(MakeReadings(s, h, sStrategy), sStrategy)
    /\ UNCHANGED <<sWeeks, sStrategy, winVars, spVars, handlerVars, pipeVars, filterVars, outlierVars,
                   minVars, gapVars, raceVars, dispVars>>

StatNext == StatDetermineStrategy \/ StatAddReading \/ StatScoreCounts

InitStats == StatInit /\ WinIdle /\ SpIdle /\ HandlerIdle /\ PipeIdle /\ FilIdle /\ OutIdle /\ MinIdle
    /\ GapIdle /\ RaceIdle /\ DispIdle
SpecStats == InitStats /\ [][StatNext]_vars

InitWindow == WinInit /\ StatIdle /\ SpIdle /\ HandlerIdle /\ PipeIdle /\ FilIdle /\ OutIdle /\ MinIdle
    /\ GapIdle /\ RaceIdle /\ DispIdle
SpecWindow == InitWindow /\ [][WinNext]_vars

InitSpacing == SpInit /\ StatIdle /\ WinIdle /\ HandlerIdle /\ PipeIdle /\ FilIdle /\ OutIdle /\ MinIdle
    /\ GapIdle /\ RaceIdle /\ DispIdle
SpecSpacing == InitSpacing /\ [][SpNext]_vars

InitPipeline ==
    PipeInit /\ StatIdle /\ WinIdle /\ SpIdle /\ HandlerIdle /\ FilIdle /\ OutIdle /\ MinIdle
    /\ GapIdle /\ RaceIdle /\ DispIdle
SpecPipeline == InitPipeline /\ [][PipeNext]_vars

InitFilter ==
    FilInit /\ StatIdle /\ WinIdle /\ SpIdle /\ HandlerIdle /\ PipeIdle /\ OutIdle /\ MinIdle
    /\ GapIdle /\ RaceIdle /\ DispIdle
SpecFilter == InitFilter /\ [][FilNext]_vars

InitOutliers ==
    OutInit /\ StatIdle /\ WinIdle /\ SpIdle /\ HandlerIdle /\ PipeIdle /\ FilIdle /\ MinIdle
    /\ GapIdle /\ RaceIdle /\ DispIdle
SpecOutliers == InitOutliers /\ [][OutNext]_vars

InitMinSpacing ==
    MinInit /\ StatIdle /\ WinIdle /\ SpIdle /\ HandlerIdle /\ PipeIdle /\ FilIdle /\ OutIdle
    /\ GapIdle /\ RaceIdle /\ DispIdle
SpecMinSpacing == InitMinSpacing /\ [][MinNext]_vars

InitGapFill ==
    GapInit /\ StatIdle /\ WinIdle /\ SpIdle /\ HandlerIdle /\ PipeIdle /\ FilIdle /\ OutIdle
    /\ MinIdle /\ RaceIdle /\ DispIdle
SpecGapFill == InitGapFill /\ [][GapNext]_vars

InitRace ==
    RaceInit /\ StatIdle /\ WinIdle /\ SpIdle /\ HandlerIdle /\ PipeIdle /\ FilIdle /\ OutIdle
    /\ MinIdle /\ GapIdle /\ DispIdle
SpecRace == InitRace /\ [][RaceNext]_vars

InitDispatch ==
    DispInit /\ StatIdle /\ WinIdle /\ SpIdle /\ HandlerIdle /\ PipeIdle /\ FilIdle /\ OutIdle
    /\ MinIdle /\ GapIdle /\ RaceIdle
SpecDispatch == InitDispatch /\ [][DispNext]_vars

(***************************************************************************)
(* Claims about the strategy and the statistics functions (SpecStats)      *)
(***************************************************************************)
\* 1e-7, the tolerance of the repository's assertAlmostEquals
Tolerance == FMul(FDec(1, 10000), FDec(1, 1000))

AlmostEquals(a, b) ==
    IF FLe(a, b) THEN FLe(FSub(b, a), Tolerance) ELSE FLe(FSub(a, b), Tolerance)

\* a / q for a limb-sized integer q > 0
FDivInt(a, q) ==
    IF a = FZero THEN FZero
    ELSE LET d == BNDivSmall(BNShl(a.m, 75), q)
         IN  RoundToDouble(d.q, a.e - 75, d.r # 0)

\* C6: determineLookbackStrategy is defined for every count n >= 0: n = 0 gives
\* bootstrap (historical only, 60 days, weight 1.0), 1 <= n <= 3 gives transition
\* (both sources, weight 0.7, 0.4, 0.1 up to rounding, 60 - 7n days), n >= 4
\* gives mature (scheduled only, 0 days, weight 0).
C6_StrategyByWeeks ==
    sStrategy.mode # "none" =>
        /\ sStrategy.scheduledWeeksCount = sWeeks
        /\ sWeeks = 0 =>
              /\ sStrategy.mode = "bootstrap"
              /\ ~sStrategy.useScheduledWeeks
              /\ sStrategy.useHistoricalWeeks
              /\ sStrategy.historicalLookbackDays = 60
              /\ sStrategy.historicalWeight = FInt(1)
        /\ sWeeks \in 1..3 =>
              /\ sStrategy.mode = "transition"
              /\ sStrategy.useScheduledWeeks
              /\ sStrategy.useHistoricalWeeks
              /\ sStrategy.historicalLookbackDays = 60 - 7 * sWeeks
              /\ AlmostEquals(sStrategy.historicalWeight, FDec(10 - 3 * sWeeks, 10))
              /\ FLe(FDec(1, 10), sStrategy.historicalWeight)
        /\ sWeeks >= 4 =>
              /\ sStrategy.mode = "mature"
              /\ sStrategy.useScheduledWeeks
              /\ ~sStrategy.useHistoricalWeeks
              /\ sStrategy.historicalLookbackDays = 0
              /\ sStrategy.historicalWeight = FZero

C6_Witness == sStrategy.mode = "transition" /\ sWeeks = 3

\* the weight accumulated over the first i readings, as the loop adds it
CumulativeWeight(sorted, i) == SumWeights(SubSeq(sorted, 1, i))

\* C7: for a non-empty list of readings with positive weights the weighted median
\* is the minute of the first reading, in ascending minute order, at which the
\* cumulative weight is at least half the total weight: it is one of the input
\* minutes and the weight before it is below half the total.  For the empty
\* list it is 0.
C7_WeightedMedian ==
    sStrategy.mode # "none" =>
        IF sReadings = <<>> THEN sMedian = 0
        ELSE LET sorted == SortByMinute(sReadings)
                 half   == FHalf(CumulativeWeight(sorted, Len(sorted)))
             IN  /\ \A k \in 1..Len(sReadings) : FLt(FZero, sReadings[k].weight)
                 /\ \E k \in 1..Len(sReadings) : sReadings[k].minute_of_day = sMedian
                 /\ \E i \in 1..Len(sorted) :
                        /\ sorted[i].minute_of_day = sMedian
                        /\ FLe(half, CumulativeWeight(sorted, i))
                        /\ \A j \in 1..(i - 1) : FLt(CumulativeWeight(sorted, j), half)

\* a list whose weighted median is not its middle element
C7_Witness ==
    /\ Len(sReadings) >= 3
    /\ sMedian # SortByMinute(sReadings)[(Len(sReadings) \div 2) + 1].minute_of_day

\* C8: the confidence is in [0, 1]; it is exactly 0.5 for fewer than 3 readings
\* and otherwise min(1.0, 0.7 + min(0.2, 0.04 s) + min(0.1, 0.02 h w) + 0.1 s / n)
\* for s scheduled_week and h historical readings among n, w = historicalWeight.
C8_ConfidenceFormula ==
    sStrategy.mode # "none" =>
        LET s == CountQuality(sReadings, "scheduled_week")
            h == CountQuality(sReadings, "historical")
            n == Len(sReadings)
            w == sStrategy.historicalWeight
        IN  /\ FLe(FZero, w) /\ FLe(w, FInt(1))
            /\ FLe(FZero, sConfidence) /\ FLe(sConfidence, FInt(1))
            /\ n < 3 => sConfidence = FDec(1, 2)
            /\ n >= 3 =>
                  AlmostEquals(sConfidence,
                      MathMin(FInt(1),
                          FAdd(FAdd(FAdd(FDec(7, 10),
                                         MathMin(FDec(2, 10), FMul(FDec(4, 100), FInt(s)))),
                                    MathMin(FDec(1, 10),
                                            FMul(FMul(FDec(2, 100), FInt(h)), w))),
                               FDivInt(FMul(FDec(1, 10), FInt(s)), n))))

\* the clamp at 1.0 is reached
C8_Witness == Len(sReadings) >= 6 /\ sConfidence = FInt(1)

\* C9: one more scheduled_week reading, with the historical readings and the
\* strategy unchanged, never lowers the confidence.
C9_ConfidenceMonotone ==
    sStrategy.mode # "none" => FLe(sConfidence, sConfidenceMore)

C9_Witness ==
    /\ Len(sReadings) >= 3
    /\ CountQuality(sReadings, "historical") >= 1
    /\ FLt(sConfidence, sConfidenceMore)

(***************************************************************************)
(* Claims about generateScheduleForWindow (SpecWindow)                     *)
(***************************************************************************)
InWindowReading(r, window) ==
    /\ r.measurement_type = window.measurement_type
    /\ r.day_of_week = window.day_of_week
    /\ r.minute_of_day >= window.time_start[1] * 60 + window.time_start[2]
    /\ r.minute_of_day <= window.time_end[1] * 60 + window.time_end[2]

\* C4: generateScheduleForWindow returns one candidate for the window; its
\* source is 'history' exactly when the window's reading set (the readings of
\* the window's type and day inside [time_start, time_end], after the outlier
\* filter and the adaptive fallback) has at least 3 readings, and then its
\* minute_of_day is the weighted median of that set plus 5; otherwise its
\* source is 'default_window' and its confidence is exactly 0.5.
C4_HistoryIffThreeReadings ==
    wPc = "done" =>
        /\ wCandidate.meal_window_id = wWindow.id
        /\ wCandidate.user_id = wWindow.user_id
        /\ wCandidate.readings_count = Len(wWindowReadings)
        /\ wStrategy.mode # "mature" =>
               \A i \in 1..Len(wWindowReadings) :
                   InWindowReading(wWindowReadings[i], wWindow)
        /\ wCandidate.source = "history" <=> Len(wWindowReadings) >= 3
        /\ wCandidate.source = "history" =>
               wCandidate.minute_of_day = calculateWeightedMedian(wWindowReadings) + 5
        /\ wCandidate.source # "history" =>
               /\ wCandidate.source = "default_window"
               /\ wCandidate.confidence = Lit_0_5

C4_Witness ==
    /\ wPc = "done"
    /\ wCandidate.source = "history"
    /\ Len(wWindowReadings) = 3
    /\ wCandidate.minute_of_day = 485

\* C5: for a window with time_start <= time_end, a 'default_window' candidate
\* has its minute_of_day inside [time_start, time_end]: the midpoint
\* round((start + end) / 2) of a fasting window, end - 30 of a post-meal
\* window, clamped into [start, end].
C5_DefaultInsideWindow ==
    LET start  == wWindow.time_start[1] * 60 + wWindow.time_start[2]
        end    == wWindow.time_end[1] * 60 + wWindow.time_end[2]
        target == IF wWindow.measurement_type = "fasting"
                  THEN (start + end + 1) \div 2
                  ELSE end - 30
    IN  (wPc = "done" /\ wCandidate.source = "default_window" /\ start <= end) =>
            /\ wCandidate.minute_of_day >= start
            /\ wCandidate.minute_of_day <= end
            /\ wCandidate.minute_of_day =
                   (IF target < start THEN start ELSE IF target > end THEN end ELSE target)

C5_Witness ==
    /\ wPc = "done"
    /\ wCandidate.source = "default_window"
    /\ wWindow.measurement_type # "fasting"
    /\ wWindow.time_end[1] * 60 + wWindow.time_end[2] - 30
           < wWindow.time_start[1] * 60 + wWindow.time_start[2]
    /\ wCandidate.minute_of_day = wWindow.time_start[1] * 60 + wWindow.time_start[2]

\* the organic rows of the last 60 days that lie inside the window
OrganicInWindow(rows, window) ==
    SelectSeq(rows, LAMBDA r :
        /\ r.reading_context = "organic"
        /\ r.measured_at >= RunTime - 60 * MinutesPerDay
        /\ InWindowReading([measurement_type |-> r.measurement_type,
                            day_of_week   |-> toLocalParts(r.measured_at).day_of_week,
                            minute_of_day |-> toLocalParts(r.measured_at).minute_of_day],
                           window))

Lit_0_8 == FDec(8, 10)

\* C10: bootstrap: for a user with 0 completed scheduled weeks whose window
\* holds at least 3 organic readings inside it (and whose readings were
\* fetched), the candidate has source 'history' and a confidence strictly
\* below 0.8.
C10_BootstrapHistory ==
    (/\ wPc = "done"
     /\ wWeeks = 0
     /\ ~wFetchFailed
     /\ Len(OrganicInWindow(wRows, wWindow)) >= 3) =>
        /\ wCandidate.source = "history"
        /\ FLt(wCandidate.confidence, Lit_0_8)

C10_Witness ==
    /\ wPc = "done"
    /\ wWeeks = 0
    /\ ~wFetchFailed
    /\ Len(OrganicInWindow(wRows, wWindow)) = 5
    /\ wCandidate.source = "history"
    /\ wCandidate.confidence = FAdd(Lit_0_7, Lit_0_1)
    /\ FLt(wCandidate.confidence, Lit_0_8)

InSeq(c, seq) == \E i \in 1..Len(seq) : seq[i] = c

\* C1: any two distinct schedules returned by enforceSpacingByConfidence have
\* scheduled_at values at least minSpacingMinutes apart.
C1_MinimumSpacing ==
    spPc = "done" =>
        \A i, j \in 1..Len(spFinal) :
            i # j =>
                \/ spFinal[i].scheduled_at - spFinal[j].scheduled_at >= spMinSpacing
                \/ spFinal[j].scheduled_at - spFinal[i].scheduled_at >= spMinSpacing

C1_Witness ==
    /\ spPc = "done"
    /\ Len(spCandidates) = 3
    /\ Len(spFinal) = 2
    /\ spMinSpacing = 90
    /\ spFinal[2].scheduled_at - spFinal[1].scheduled_at = 90

\* C3: a candidate that enforceSpacingByConfidence drops lies within
\* minSpacingMinutes of a returned candidate whose confidence is at least its
\* own; a candidate of maximal confidence is returned; and every returned
\* schedule is an element of the input, unchanged.
C3_GreedyByConfidence ==
    spPc = "done" =>
        /\ \A i \in 1..Len(spCandidates) :
               ~InSeq(spCandidates[i], spFinal) =>
                   \E k \in 1..Len(spFinal) :
                       /\ spFinal[k].scheduled_at - spCandidates[i].scheduled_at
                              < spMinSpacing
                       /\ spCandidates[i].scheduled_at - spFinal[k].scheduled_at
                              < spMinSpacing
                       /\ FLe(spCandidates[i].confidence, spFinal[k].confidence)
        /\ spCandidates # <<>> =>
               \E k \in 1..Len(spFinal) :
                   \A i \in 1..Len(spCandidates) :
                       FLe(spCandidates[i].confidence, spFinal[k].confidence)
        /\ \A k \in 1..Len(spFinal) : InSeq(spFinal[k], spCandidates)

\* the test's case: 08:00 (0.9), 08:30 (0.5), 10:00 (0.8) gives 08:00 and 10:00
C3_Witness ==
    /\ spPc = "done"
    /\ spMinSpacing = 90
    /\ Len(spCandidates) = 3
    /\ spCandidates[1].confidence = FDec(9, 10)
    /\ spCandidates[2].confidence = Lit_0_5
    /\ spCandidates[3].confidence = FDec(8, 10)
    /\ spCandidates[2].scheduled_at - spCandidates[1].scheduled_at = 30
    /\ spCandidates[3].scheduled_at - spCandidates[1].scheduled_at = 120
    /\ spFinal = <<spCandidates[1], spCandidates[3]>>

\* the window's readings as applyAdaptiveFallback receives them
BeforeFallback ==
    filterOutliersByWeight(
        SelectSeq(wAllReadings, LAMBDA r : InWindowReading(r, wWindow)))

\* C11: applyAdaptiveFallback returns its input unchanged unless the mode is
\* 'mature' and the window has fewer than 3 readings, and also when its query
\* fails; when it triggers, the original readings are all retained, in
\* front, and every appended reading is of the window's measurement type,
\* tagged 'historical' and weighted exactly 0.5.
C11_FallbackFrame ==
    wPc = "done" =>
        LET n == Len(BeforeFallback)
        IN  /\ (wStrategy.mode # "mature" \/ n >= 3 \/ wFallbackFailed) =>
                   wWindowReadings = BeforeFallback
            /\ Len(wWindowReadings) >= n
            /\ SubSeq(wWindowReadings, 1, n) = BeforeFallback
            /\ \A i \in (n + 1)..Len(wWindowReadings) :
                   /\ wWindowReadings[i].measurement_type = wWindow.measurement_type
                   /\ wWindowReadings[i].data_quality = "historical"
                   /\ wWindowReadings[i].weight = Lit_0_5

C11_Witness ==
    /\ wPc = "done"
    /\ wStrategy.mode = "mature"
    /\ ~wFallbackFailed
    /\ Len(BeforeFallback) = 1
    /\ Len(wWindowReadings) = 4
    /\ wWindowReadings[4].weight = Lit_0_5

Lit_0_6 == FDec(6, 10)

\* C24: non-compliant mature user: whenever the adaptive fallback is triggered
\* for a window (mature mode, fewer than 3 readings of the window), the
\* confidence of the resulting candidate lies between 0.5 and 0.6, whether the
\* candidate is history-based or a window default.  Stated for stores of
\* organic rows, where no row is counted twice.
C24_FallbackConfidence ==
    (/\ wPc = "done"
     /\ wStrategy.mode = "mature"
     /\ Len(BeforeFallback) < 3
     /\ \A i \in 1..Len(wRows) : wRows[i].reading_context = "organic") =>
        /\ FLe(Lit_0_5, wCandidate.confidence)
        /\ FLe(wCandidate.confidence, Lit_0_6)

\* C28: a candidate with source 'history' has its minute_of_day between
\* time_start + 5 and time_end + 5 in every strategy mode, also when the
\* adaptive fallback added readings: the reminder leaves its window by at most
\* the 5-minute offset.
C28_HistoryNearWindow ==
    (wPc = "done" /\ wCandidate.source = "history") =>
        /\ wCandidate.minute_of_day >= wWindow.time_start[1] * 60 + wWindow.time_start[2] + 5
        /\ wCandidate.minute_of_day <= wWindow.time_end[1] * 60 + wWindow.time_end[2] + 5

\* the reading r was made from the stored row
ReadingOfRow(r, row) ==
    /\ r.measurement_type = row.measurement_type
    /\ r.date = toLocalParts(row.measured_at).date
    /\ r.minute_of_day = toLocalParts(row.measured_at).minute_of_day

\* C12: no double counting: the reading set used for a window holds no more
\* readings of a stored row than the store holds such rows, and a row tagged
\* 'scheduled_prompt' never appears in it as a 'historical' reading.
C12_NoDoubleCounting ==
    wPc = "done" =>
        \A i \in 1..Len(wRows) :
            /\ Cardinality({j \in 1..Len(wWindowReadings) :
                               ReadingOfRow(wWindowReadings[j], wRows[i])})
                   <= Cardinality({k \in 1..Len(wRows) :
                                      /\ wRows[k].measured_at = wRows[i].measured_at
                                      /\ wRows[k].measurement_type =
                                             wRows[i].measurement_type})
            /\ wRows[i].reading_context = "scheduled_prompt" =>
                   \A j \in 1..Len(wWindowReadings) :
                       ReadingOfRow(wWindowReadings[j], wRows[i]) =>
                           wWindowReadings[j].data_quality = "scheduled_week"

(***************************************************************************)
(* Claims about the handler (Spec)                                         *)
(***************************************************************************)
\* the eligible users that have meal windows
UsersWithWindows == {u \in user_settings : user_meal_windows[u] # <<>>}

InTargetWeek(at) == at >= TargetMonday /\ at < TargetMonday + 7 * MinutesPerDay

\* C2: full coverage: after a run that processed every eligible user with
\* meal windows and logged no insert error, the rows of the target week hold,
\* for each of those users, a reminder for each of the user's meal windows.
C2_FullCoverage ==
    (/\ hPc = "returned"
     /\ hResponse = JsonResponse(200, "Successfully scheduled reminders")
     /\ hInsertErrors = {}
     /\ processedUsers = Cardinality(UsersWithWindows)) =>
        \A u \in UsersWithWindows :
            \A i \in 1..Len(user_meal_windows[u]) :
                \E k \in 1..Len(notification_schedules) :
                    /\ notification_schedules[k].user_id = u
                    /\ notification_schedules[k].meal_window_id =
                           user_meal_windows[u][i].id
                    /\ InTargetWeek(notification_schedules[k].scheduled_at)

\* the rows of notification_schedules that belong to the user
SchedulesOf(rows, user) == SelectSeq(rows, LAMBDA r : r.user_id = user)

\* C13: a user with zero meal windows is skipped by a run: the step that
\* finds no windows goes on to the next user without fetching a strategy or
\* readings and without counting the user in processedUsers, and no step of
\* the run deletes or inserts a notification_schedules row of such a user.
C13_SkipUserWithoutWindows ==
    [][/\ \A u \in {"u1", "u2"} :
              user_meal_windows[u] = <<>> =>
                  SchedulesOf(notification_schedules', u)
                      = SchedulesOf(notification_schedules, u)
       /\ (hPc = "fetchWindows" /\ user_meal_windows[Head(hEligibleUsers)] = <<>>) =>
              /\ hEligibleUsers' = Tail(hEligibleUsers)
              /\ hPc' \in {"fetchWindows", "completeRun"}
              /\ processedUsers' = processedUsers
              /\ hStrategy' = hStrategy
              /\ hReadings' = hReadings
              /\ notification_schedules' = notification_schedules]_vars

C13_Witness ==
    /\ hPc = "returned"
    /\ hResponse = JsonResponse(200, "Successfully scheduled reminders")
    /\ user_settings = {"u1", "u2"}
    /\ user_meal_windows["u1"] = <<>>
    /\ user_meal_windows["u2"] # <<>>
    /\ SchedulesOf(notification_schedules, "u1") = <<StaleSchedule>>
    /\ SchedulesOf(notification_schedules, "u2") # <<>>
    /\ notification_schedule_runs.status = "completed"
    /\ notification_schedule_runs.users_processed = 1

InRangeOf(rows, user) ==
    SelectSeq(rows, LAMBDA r : r.user_id = user /\ InTargetWeek(r.scheduled_at))

OutsideOf(rows, user) ==
    SelectSeq(rows, LAMBDA r : ~(r.user_id = user /\ InTargetWeek(r.scheduled_at)))

\* C14: replace-semantics write: the delete and the insert of a processed
\* user leave the rows of other users and the rows outside
\* [target_monday, target_monday + 7 days) unchanged, and after an insert that
\* succeeded (the handler adds the rows to totalSchedulesCreated) the user's
\* rows in that range are exactly the final schedules of this run.
C14_ReplaceWrite ==
    [][(hPc \in {"delete", "insert"}) =>
           LET user == Head(hEligibleUsers)
           IN  /\ OutsideOf(notification_schedules', user)
                      = OutsideOf(notification_schedules, user)
               /\ (hPc = "insert" /\ totalSchedulesCreated' > totalSchedulesCreated) =>
                      InRangeOf(notification_schedules', user)
                          = DbPayload(hFinalSchedules)]_vars

\* C26: the per-user write is all-or-nothing: after the commit step of a user
\* (the insert that follows the delete) the user's rows of the target week are
\* either the rows the user had before the delete or the new final set; in
\* particular they are still present after an insert that failed.
C26_AllOrNothingWrite ==
    [][(hPc = "insert") =>
           LET user == Head(hEligibleUsers)
           IN  \/ InRangeOf(notification_schedules', user) = hRowsBefore
               \/ InRangeOf(notification_schedules', user) = DbPayload(hFinalSchedules)]_vars

\* C15: already-scheduled week: an invocation returns early with the success
\* "Week already scheduled" only when the run ledger holds a run of the target
\* week that completed, and the early return creates no run record and
\* deletes or inserts no schedule row.
C15_AlreadyScheduled ==
    [][(/\ hPc = "checkRun"
        /\ hPc' = "returned"
        /\ hResponse' = JsonResponse(200, "Week already scheduled")) =>
           /\ notification_schedule_runs.status = "completed"
           /\ notification_schedule_runs' = notification_schedule_runs
           /\ notification_schedules' = notification_schedules]_vars

\* C16: a failed insert of one user's schedules is not fatal: the step logs
\* it, commits nothing and adds nothing to totalSchedulesCreated, and goes on
\* with the next user (or, after the last, with the update of the run); a
\* successful insert adds the number of the user's final schedules; and the
\* run is updated, after all users, to 'completed' with those counters.
C16_InsertFailureNonFatal ==
    [][/\ hPc = "insert" =>
              /\ hEligibleUsers' = Tail(hEligibleUsers)
              /\ hPc' = (IF Len(hEligibleUsers) = 1 THEN "completeRun"
                                                    ELSE "fetchWindows")
              /\ IF Head(hEligibleUsers) \in hInsertErrors'
                 THEN /\ totalSchedulesCreated' = totalSchedulesCreated
                      /\ notification_schedules' = notification_schedules
                 ELSE totalSchedulesCreated' =
                          totalSchedulesCreated + Len(hFinalSchedules)
       /\ hPc = "completeRun" =>
              /\ hEligibleUsers = <<>>
              /\ hResponse' = JsonResponse(200, "Successfully scheduled reminders")
              /\ \/ notification_schedule_runs' =
                        [status |-> "completed", users_processed |-> processedUsers,
                         schedules_created |-> totalSchedulesCreated]
                 \/ notification_schedule_runs' = notification_schedule_runs]_vars

\* u1's insert failed, u2 was processed after it and only u2's rows count
C16_Witness ==
    /\ hPc = "returned"
    /\ hInvocation = 1
    /\ hInsertErrors = {"u1"}
    /\ notification_schedule_runs =
           [status |-> "completed", users_processed |-> 2, schedules_created |-> 2]
    /\ Len(SchedulesOf(notification_schedules, "u2")) = 2
    /\ InRangeOf(notification_schedules, "u1") = <<>>

\* C17: per-user fetch failure: a user for whom the query of the completed
\* weeks or of the readings failed in this run is skipped: the run generates
\* no schedules for the user and neither deletes nor inserts rows of the user.
C17_FetchFailureSkipsUser ==
    hPc \in {"generate", "delete", "insert"} =>
        Head(hEligibleUsers) \notin hFetchErrors

\* C18: determinism: executions of the per-user pipeline on identical stored
\* data, identical meal windows and the same target_monday produce identical
\* final schedules (same rows, same order, same confidence and source).
C18_Determinism ==
    \A i, j \in 1..Len(pRuns) : pRuns[i] = pRuns[j]

\* the claim's criterion: some window has the day and the type of the reading
\* and time_start <= minute_of_day <= time_end
CoveredBy(reading, windows) ==
    \E i \in 1..Len(windows) :
        /\ windows[i].day_of_week = reading.day_of_week
        /\ windows[i].measurement_type = reading.measurement_type
        /\ windows[i].time_start[1] * 60 + windows[i].time_start[2] <= reading.minute_of_day
        /\ reading.minute_of_day <= windows[i].time_end[1] * 60 + windows[i].time_end[2]

\* the covered readings of a list, in the order of the list
RECURSIVE KeptInOrder(_, _)
KeptInOrder(readings, windows) ==
    IF readings = <<>> THEN <<>>
    ELSE IF CoveredBy(Head(readings), windows)
         THEN <<Head(readings)>> \o KeptInOrder(Tail(readings), windows)
         ELSE KeptInOrder(Tail(readings), windows)

\* C19: filterReadingsByMealWindows returns the input unchanged when the list
\* of meal windows is empty; otherwise it keeps, in input order, exactly the
\* readings for which some window has the same day_of_week and
\* measurement_type and time_start <= minute_of_day <= time_end, so that a
\* reading whose day and type have no window is dropped.
C19_FilterByMealWindows ==
    fPc = "done" =>
        /\ fWindows = <<>> => fFiltered = fReadings
        /\ fWindows # <<>> => fFiltered = KeptInOrder(fReadings, fWindows)

\* a reading at the last minute of a window is kept, between a reading one
\* minute late and a reading of a day and type without window, both dropped
C19_Witness ==
    /\ fPc = "done"
    /\ fWindows = << Window("f1", "u1", 1, "fasting", <<7, 30>>, <<9, 0>>) >>
    /\ fReadings = << FilterReading(1, 541, "fasting"), FilterReading(1, 540, "fasting"),
                      FilterReading(2, 480, "fasting") >>
    /\ fFiltered = << FilterReading(1, 540, "fasting") >>

\* the k-th smallest of the values
KthSmallest(values, k) ==
    CHOOSE v \in {values[i] : i \in 1..Len(values)} :
        /\ Cardinality({i \in 1..Len(values) : values[i] < v}) < k
        /\ Cardinality({i \in 1..Len(values) : values[i] <= v}) >= k

\* twice the unweighted median
TwiceMedian(values) ==
    KthSmallest(values, (Len(values) + 1) \div 2) + KthSmallest(values, Len(values) \div 2 + 1)

\* the sum of the squares of the doubled deviations, 4 n s^2
RECURSIVE SumSquaredDeviations(_, _)
SumSquaredDeviations(values, median2) ==
    IF values = <<>> THEN 0
    ELSE (2 * Head(values) - median2) * (2 * Head(values) - median2)
         + SumSquaredDeviations(Tail(values), median2)

\* |v - median| <= t * s, s being 1 when it is 0: with D = 2 |v - median| and
\* Q = 4 n s^2, D <= 2 t when Q = 0 and n D^2 <= t^2 Q otherwise
KeepCriterion(v, values, t) ==
    LET median2 == TwiceMedian(values)
        Q == SumSquaredDeviations(values, median2)
        D == IF 2 * v >= median2 THEN 2 * v - median2 ELSE median2 - 2 * v
    IN  IF Q = 0 THEN D <= 2 * t ELSE Len(values) * D * D <= t * t * Q

RECURSIVE KeptValues(_, _, _)
KeptValues(rest, values, t) ==
    IF rest = <<>> THEN <<>>
    ELSE IF KeepCriterion(Head(rest), values, t)
         THEN <<Head(rest)>> \o KeptValues(Tail(rest), values, t)
         ELSE KeptValues(Tail(rest), values, t)

\* C20: outlier rejection with threshold t (detectStatisticalOutliers, and
\* filterOutliersByWeight with its threshold of 2): fewer than 3 values are
\* returned unchanged; otherwise a value v is kept if and only if
\* |v - median| <= t * s, the median being the unweighted median of the
\* minute values, s the root-mean-square deviation from it, replaced by 1 when
\* it is 0; both functions apply the same criterion.
C20_OutlierCriterion ==
    oPc = "done" =>
        /\ Len(oValues) < 3 =>
              /\ oKept = oValues
              /\ oKeptByWeight = AsReadings(oValues)
        /\ Len(oValues) >= 3 =>
              /\ oKept = KeptValues(oValues, oValues, oThreshold)
              /\ oKeptByWeight = AsReadings(KeptValues(oValues, oValues, 2))
        /\ oThreshold = 2 => MinutesOf(oKeptByWeight) = oKept

\* the example of the documentation: 1380 is removed, the six others remain
C20_Witness ==
    /\ oPc = "done"
    /\ oThreshold = 2
    /\ oValues = <<475, 480, 485, 490, 478, 482, 1380>>
    /\ oKept = <<475, 480, 485, 490, 478, 482>>
    /\ MinutesOf(oKeptByWeight) = <<475, 480, 485, 490, 478, 482>>

\* the sweep of the claim over schedules in ascending scheduled_at order:
\* the gap is the time between a schedule and the last kept one
RECURSIVE SweepByGap(_, _, _)
SweepByGap(sorted, kept, minSpacing) ==
    IF sorted = <<>> THEN kept
    ELSE IF kept = <<>>
            \/ Head(sorted).scheduled_at - kept[Len(kept)].scheduled_at >= minSpacing
         THEN SweepByGap(Tail(sorted), Append(kept, Head(sorted)), minSpacing)
         ELSE IF Head(sorted).frequency > kept[Len(kept)].frequency
              THEN SweepByGap(Tail(sorted), [kept EXCEPT ![Len(kept)] = Head(sorted)],
                              minSpacing)
              ELSE SweepByGap(Tail(sorted), kept, minSpacing)

\* C21: enforceMinimumSpacing processes the schedules in ascending
\* scheduled_at order, on one day or across several days: the first is kept,
\* a later one is kept whenever its gap since the last kept schedule is at
\* least minSpacing minutes, and one closer than that replaces the last kept
\* one only if its frequency is strictly higher and is dropped otherwise.
C21_MinimumSpacingSweep ==
    mPc = "done" =>
        mKept = SweepByGap(SortByScheduledAt(mSchedules), <<>>, MinSpacingMinutes)

\* a schedule of the window's user and type inside the window on its day
CoveringSchedule(schedule, window) ==
    /\ schedule.user_id = window.user_id
    /\ schedule.measurement_type = window.measurement_type
    /\ ((schedule.scheduled_at \div MinutesPerDay) + 1) % 7 = window.day_of_week
    /\ schedule.scheduled_at % MinutesPerDay >= window.time_start[1] * 60 + window.time_start[2]
    /\ schedule.scheduled_at % MinutesPerDay <= window.time_end[1] * 60 + window.time_end[2]

\* the windows that are to receive a default reminder
NeedsReminder(window) ==
    /\ window.user_id \in DOMAIN gTypes
    /\ window.measurement_type \in gTypes[window.user_id]
    /\ ~ \E i \in 1..Len(gSchedules) : CoveringSchedule(gSchedules[i], window)

\* the schedules are those of the adjustment phase: each lies inside a window
AdjustedSchedules ==
    \A i \in 1..Len(gSchedules) :
        \E k \in 1..Len(gWindows) : CoveringSchedule(gSchedules[i], gWindows[k])

\* C22: fillMissingMealWindowReminders synthesizes a default reminder at
\* max(time_start, time_end - 20 min) for every meal window whose measurement
\* type the user has used and that has no covering schedule, also when another
\* window of the same day and type is covered, and adds none for covered
\* windows or for types the user never used.
C22_GapFilling ==
    gPc = "done" /\ AdjustedSchedules =>
        /\ \A i \in 1..Len(gWindows) :
               NeedsReminder(gWindows[i]) <=>
                   \E k \in 1..Len(gFillers) :
                       /\ gFillers[k].user_id = gWindows[i].user_id
                       /\ gFillers[k].measurement_type = gWindows[i].measurement_type
                       /\ gFillers[k].scheduled_at =
                              GapMonday
                              + (IF gWindows[i].day_of_week = 0 THEN 6
                                 ELSE gWindows[i].day_of_week - 1) * MinutesPerDay
                              + Max(gWindows[i].time_start[1] * 60 + gWindows[i].time_start[2],
                                    gWindows[i].time_end[1] * 60 + gWindows[i].time_end[2] - 20)
        /\ Len(gFillers) = Cardinality({i \in 1..Len(gWindows) : NeedsReminder(gWindows[i])})

\* C23 as stated: the final schedules of a user are pairwise at least
\* minSpacingMinutes apart in time-of-day (minute_of_day), whichever days of
\* the week they fall on.
C23_SpacedInTimeOfDay ==
    \A r \in 1..Len(pRuns) :
        \A i, j \in 1..Len(pRuns[r]) :
            i # j =>
                Abs(pRuns[r][i].minute_of_day - pRuns[r][j].minute_of_day)
                    >= MinSpacingMinutes

\* C23, amended: the final schedules of a user are pairwise at least
\* minSpacingMinutes apart in time (scheduled_at); schedules of different
\* days may have the same time-of-day.
C23_SpacedInTime ==
    \A r \in 1..Len(pRuns) :
        \A i, j \in 1..Len(pRuns[r]) :
            i # j =>
                Abs(pRuns[r][i].scheduled_at - pRuns[r][j].scheduled_at)
                    >= MinSpacingMinutes

\* an execution kept two schedules of different days at the same time-of-day
C23_Witness ==
    /\ Len(pRuns) = 1
    /\ Len(pRuns[1]) = 2
    /\ pRuns[1][1].day_of_week # pRuns[1][2].day_of_week
    /\ pRuns[1][1].minute_of_day = pRuns[1][2].minute_of_day

\* C29: every candidate produced for the target week has scheduled_at inside
\* [target Monday, target Monday + 7 days) and on the local calendar day of
\* its window's day_of_week, so the delete range of a later recomputation of
\* the same week covers it.
C29_InsideTargetWeek ==
    \A r \in 1..Len(pRuns) :
        \A i \in 1..Len(pRuns[r]) :
            /\ InTargetWeek(pRuns[r][i].scheduled_at)
            /\ toLocalParts(pRuns[r][i].scheduled_at).day_of_week = pRuns[r][i].day_of_week

\* the statuses a dispatcher run stores
FinalStatuses == {"sent", "cancelled", "failed"}

\* C30: under any sequence or interleaving of dispatcher runs, each row leads
\* to at most one push notification, its status moves only from 'scheduled'
\* to 'sent', 'cancelled' or 'failed', and a row in one of those three
\* statuses is never processed again.
C30_DispatchAtMostOnce ==
    /\ [](\A s \in DispatchRows : dPushes[s] <= 1)
    /\ [][\A s \in DispatchRows :
              dStatus'[s] # dStatus[s] =>
                  dStatus[s] = "scheduled" /\ dStatus'[s] \in FinalStatuses]_vars
    /\ [][\A p \in Dispatchers :
              (dPc[p] = "process" /\ dPc'[p] = "update") =>
                  dStatus[Head(dQueue[p])] = "scheduled"]_vars

\* C25: for any interleaving of two invocations that target the same week,
\* at most one run row is created for the week and at most one invocation
\* goes on to delete or insert schedule rows; the other ends with 'Week
\* already scheduled' or with an error response, having written no rows.
C25_SingleRunPerWeek ==
    /\ rRunsCreated <= 1
    /\ Cardinality({p \in Invocations : rWrote[p]}) <= 1
    /\ \A p \in Invocations :
           rPc[p] \in {"fetchUsers", "user", "delete", "insert", "complete"} =>
               \A q \in Invocations \ {p} :
                   /\ ~rWrote[q]
                   /\ rPc[q] \in {"request", "checkRun", "createRun", "returned"}
                   /\ rPc[q] = "returned" =>
                          \/ rResponse[q].message = "Week already scheduled"
                          \/ rResponse[q].status \in {401, 500}

\* both invocations found no run row; one wrote the schedules and the other
\* failed on the unique constraint
C25_Witness ==
    \E p, q \in Invocations :
        /\ rWrote[p]
        /\ rPc[p] = "returned"
        /\ rResponse[p].message = "Successfully scheduled reminders"
        /\ rPc[q] = "returned"
        /\ rResponse[q] = JsonResponse(500, "duplicate key")
        /\ ~rWrote[q]

\* C27: outlier rejection never starves the history path: of at least 3
\* readings filterOutliersByWeight (threshold 2) removes strictly fewer than a
\* quarter, so that at least 3 remain.
C27_OutliersLeaveThree ==
    (oPc = "done" /\ Len(oValues) >= 3) =>
        /\ Len(oKeptByWeight) >= 3
        /\ 4 * (Len(oValues) - Len(oKeptByWeight)) < Len(oValues)

\* five readings of which one is removed
C27_Witness ==
    /\ oPc = "done"
    /\ Len(oValues) = 5
    /\ Len(oKeptByWeight) = 4
    /\ 1380 \notin {oKeptByWeight[i].minute_of_day : i \in 1..Len(oKeptByWeight)}

Init ==
    HandlerInit /\ StatIdle /\ WinIdle /\ SpIdle /\ PipeIdle /\ FilIdle /\ OutIdle
    /\ MinIdle /\ GapIdle /\ RaceIdle /\ DispIdle

Next ==
    \/ HandleRequest
    \/ CheckExistingRun
    \/ CreateRun
    \/ FetchEligibleUsers
    \/ FetchUserWindows
    \/ DetermineStrategy
    \/ FetchReadings
    \/ GenerateSchedules
    \/ DeleteExisting
    \/ InsertSchedules
    \/ CompleteRun
    \/ Invoke

Spec == Init /\ [][Next]_vars

=============================================================================
